---------------------------- MODULE Spec2Model ----------------------------
(***************************************************************************)
(* Model of the documentation synthesis and merge engine of dynamo-bim-docs *)
(* (package dynamo.docs and its helpers in dynamo.utils).                   *)
(*                                                                          *)
(* A line of text is a sequence of one-character strings, a text is a       *)
(* sequence of lines.  Python's str methods are operators on such           *)
(* sequences, computed as CPython computes them.                            *)
(***************************************************************************)
EXTENDS Integers, Sequences, FiniteSets, TLC

VARIABLES
    model,              \* the content nodes get_docs renders, in order (immutable during a run)
    previous,           \* the lines handler.read returns for the destination path
    existing_docs_cache,\* ADocFile._existing_docs: <<>> is None, <<lines>> is the cached list
    pc,                 \* get_docs: number of content nodes rendered so far, Done after write
    docs,               \* get_docs: the list the contents are appended to
    existing_content,   \* AHeadlineContent._existing_content of every content node
    manual,             \* the value _manual_docs returned per content node: <<>> not called, <<lines>>
    written,            \* the lines the last file.write received
    lastWritten,        \* the lines the write before that received
    runs,               \* number of completed get_docs runs
    nodes,              \* file.model.nodes: the graph nodes in enumeration order
    annotation,         \* the annotation node of an AnnotationDocs: position and doc type
    closest,            \* AnnotationDocs._closest: <<>> is None, <<k>> is nodes[k]
    link_result,        \* outcome of the last linked_node() call
    last_closest,       \* _closest of the AnnotationDocs built before the current one
    description,        \* the annotation's description: <<>> is None, <<chars>> a string
    parser,             \* DocsParser fields after construction, <<>> before
    tbl_heading,        \* as_table: the header row, a list of cells
    tbl_rows,           \* as_table: the data rows
    tbl_lines,          \* the lines as_table returned: <<>> before the call, <<lines>> after
    tbl_ranges,         \* the value table_ranges returned: <<>> before the call, <<ranges>> after
    dependencies,       \* the file's dependencies: packages and externals
    tree_docs,          \* DependenciesDocs.content(1): <<>> before the call, <<lines>> after
    hd_text,            \* heading(): the heading text
    hd_level,           \* heading(): the level, 0 when the line is not made by heading()
    hd_line,            \* the line under test: <<>> before it exists, <<line>> after
    hd_result,          \* is_heading(line): "none" before the call
    batch,              \* the files of a documentation batch and what get_docs does for each
    batch_idx,          \* number of files the batch loop has gone through
    batch_written,      \* indexes of the files whose document was written
    batch_state,        \* "running", "done" or the error that left documentation()
    roots,              \* async_crawling: what _crawle does for every root
    task,               \* async_crawling: the state of the task of every root
    folders,            \* async_crawling: the list the results are collected in
    crawl_state,        \* "submitted", "returned" or the error that left async_crawling
    reads,              \* number of handler.read calls of the current get_docs run
    cl_collected,       \* existing_content of a node content: the heading line and the block under it
    cl_result,          \* what _clean_existing_content of the node content did: returns is "none" before the call
    io_level,           \* the level InputSectionDocs.content is called with
    io_nodes,           \* model.input_nodes(): the name of every node and whether it has a code attribute
    io_result,          \* outcome of InputSectionDocs.content: raised is "pending" before the call
    nm_name,            \* the name of the node, category or package a headline is made for
    nm_level,           \* the level of the headline
    nm_headline,        \* the lines _headline returned: <<>> before the call, <<lines>> after
    nd_annotations,     \* DocsNodeRepository._annotations: position and doc type of every annotation
    nd_model,           \* node_docs(model): the node id of the model, 0 for a model that is no graph node
    nd_result,          \* outcome of node_docs: raised is "pending" before the call, docs is 0 for None
    fs_file,            \* the file at doc_path: whether it exists and its lines
    fs_expected,        \* the file as the last write, or before any write the start, left it
    fs_cache,           \* ADocFile._existing_docs: <<>> is None, <<lines>> a list
    fs_result,          \* the last handler or existing_docs call: its name, its error and its value
    rg_lines,           \* table_ranges(lines): the lines
    rg_idx,             \* table_ranges: the index the while loop is at
    rg_ranges,          \* table_ranges: the list of ranges
    rg_state,           \* table_ranges: "looping" or "returned"
    rm_doc_files,       \* the doc_path of every doc file this run produced, in the order of the list
    rm_found,           \* gateway.documentations(...): the doc files the crawl found under the doc roots
    rm_removed,         \* the paths os.remove was called for
    rm_state,           \* "written" before _documentation_remove, "done" after
    an_entries,         \* the entries under View/Annotations of the source file: the value of 'Nodes' of each
    an_groups,          \* file.groups: <<>> before the build, then the source entry and node_ids of every Group
    an_annotations,     \* file.annotations: the source entry of every Annotation
    an_state            \* "read" before the file is built, "built" or the error after

docVars   == <<model, previous, existing_docs_cache, pc, docs, existing_content,
               manual, written, lastWritten, runs, reads>>
linkVars  == <<nodes, annotation, closest, link_result, last_closest>>
parseVars == <<description, parser>>
tableVars == <<tbl_heading, tbl_rows, tbl_lines, tbl_ranges>>
treeVars  == <<dependencies, tree_docs>>
headVars  == <<hd_text, hd_level, hd_line, hd_result>>
batchVars == <<batch, batch_idx, batch_written, batch_state>>
crawlVars == <<roots, task, folders, crawl_state>>
cleanVars == <<cl_collected, cl_result>>
inoutVars == <<io_level, io_nodes, io_result>>
nameVars == <<nm_name, nm_level, nm_headline>>
repoVars == <<nd_annotations, nd_model, nd_result>>
fileVars == <<fs_file, fs_expected, fs_cache, fs_result>>
rangeVars == <<rg_lines, rg_idx, rg_ranges, rg_state>>
removeVars == <<rm_doc_files, rm_found, rm_removed, rm_state>>
annotVars == <<an_entries, an_groups, an_annotations, an_state>>
vars      == <<docVars, linkVars, parseVars, tableVars, treeVars, headVars,
               batchVars, crawlVars,
               cleanVars,
               inoutVars,
               nameVars,
               repoVars,
               fileVars,
               rangeVars,
               removeVars,
               annotVars>>

(***************************************************************************)
(* Bounds of the model.                                                    *)
(***************************************************************************)
MaxPrevLines == 3      \* lines in the previous text of the first run
MaxNodes     == 2      \* content nodes of a document
MaxRuns      == 3      \* regenerations of one document
MaxCoord     == 1      \* canvas coordinates are 0..MaxCoord
MaxGraph     == 3      \* graph nodes of a file
MaxTextLines == 3      \* lines of an annotation text
MaxBodyLines == 5      \* lines after the section line of an annotation text
MaxCols      == 2      \* cells of a table row
MaxRows      == 2      \* data rows of a table
MaxLevel     == 3      \* heading levels are 1..MaxLevel
MaxFiles     == 2      \* files of a batch: packages with custom nodes, and scripts
MaxRoots     == 3      \* roots of a crawl
MaxEntries   == 2      \* entries found under a root
MaxDeps      == 2      \* package dependencies, and external dependencies, of a file

(***************************************************************************)
(* str methods                                                             *)
(***************************************************************************)
NL == "\n"
Whitespace == {" ", NL}

RECURSIVE lstrip(_)
lstrip(s) ==
    IF s # <<>> /\ Head(s) \in Whitespace THEN lstrip(Tail(s)) ELSE s

RECURSIVE rstrip(_)
rstrip(s) ==
    IF s # <<>> /\ s[Len(s)] \in Whitespace THEN rstrip(SubSeq(s, 1, Len(s) - 1)) ELSE s

strip(s) == lstrip(rstrip(s))

startswith(s, prefix) ==
    Len(prefix) <= Len(s) /\ SubSeq(s, 1, Len(prefix)) = prefix

endswith(s, suffix) ==
    Len(suffix) <= Len(s) /\ SubSeq(s, Len(s) - Len(suffix) + 1, Len(s)) = suffix

\* s.split(sep) for a one-character separator: the pieces between separators
RECURSIVE split(_, _)
split(s, sep) ==
    IF \A i \in 1..Len(s) : s[i] # sep
    THEN <<s>>
    ELSE LET k == CHOOSE i \in 1..Len(s) :
                      s[i] = sep /\ \A j \in 1..(i - 1) : s[j] # sep
         IN <<SubSeq(s, 1, k - 1)>> \o split(SubSeq(s, k + 1, Len(s)), sep)

\* s.splitlines(keepends=False): split at line ends, no empty piece after a final one
splitlines(s) ==
    IF s = <<>> THEN <<>>
    ELSE LET pieces == split(s, NL)
         IN IF s[Len(s)] = NL THEN SubSeq(pieces, 1, Len(pieces) - 1) ELSE pieces

\* sep.join(parts)
RECURSIVE join(_, _)
join(parts, sep) ==
    IF parts = <<>> THEN <<>>
    ELSE IF Len(parts) = 1 THEN parts[1]
    ELSE parts[1] \o sep \o join(Tail(parts), sep)

\* s.replace(old, new): every occurrence from the left, not overlapping; for an
\* empty old, new goes before every character and after the last
RECURSIVE replace(_, _, _)
replace(s, old, new) ==
    IF Len(old) = 0
    THEN IF s = <<>> THEN new ELSE new \o <<Head(s)>> \o replace(Tail(s), old, new)
    ELSE IF Len(s) < Len(old) THEN s
    ELSE IF startswith(s, old)
    THEN new \o replace(SubSeq(s, Len(old) + 1, Len(s)), old, new)
    ELSE <<Head(s)>> \o replace(Tail(s), old, new)

Digits == <<"0", "1", "2", "3", "4", "5", "6", "7", "8", "9">>

\* s.isnumeric() for ASCII text: not empty and decimal digits only
isnumeric(s) ==
    /\ Len(s) > 0
    /\ \A i \in 1..Len(s) : \E d \in 1..Len(Digits) : s[i] = Digits[d]

\* float(s) for a string of decimal digits
RECURSIVE float(_)
float(s) ==
    IF s = <<>> THEN 0
    ELSE float(SubSeq(s, 1, Len(s) - 1)) * 10
         + (CHOOSE d \in 0..9 : s[Len(s)] = Digits[d + 1])

RECURSIVE Flatten(_)
Flatten(seqs) == IF seqs = <<>> THEN <<>> ELSE Head(seqs) \o Flatten(Tail(seqs))

(***************************************************************************)
(* dynamo.utils.checks / dynamo.utils.values.ValueHandler                  *)
(***************************************************************************)
default_docs == <<"?", "?", "?">>

\* checks.is_blank for a str value
is_blank(value, do_strip) ==
    Len(IF do_strip THEN strip(value) ELSE value) = 0

is_not_blank(value, do_strip) == ~is_blank(value, do_strip)

empty_line == << <<>> >>

RECURSIVE strip_starting_empty(_)
strip_starting_empty(lines) ==
    IF Len(lines) # 0 /\ is_blank(lines[1], TRUE)
    THEN strip_starting_empty(Tail(lines)) ELSE lines

RECURSIVE strip_ending_empty(_)
strip_ending_empty(lines) ==
    IF Len(lines) # 0 /\ is_blank(lines[Len(lines)], TRUE)
    THEN strip_ending_empty(SubSeq(lines, 1, Len(lines) - 1)) ELSE lines

\* blank lines are taken from the start only
strip_empty_StartOnly(lines) == strip_starting_empty(lines)

strip_empty(lines) == strip_ending_empty(strip_starting_empty(lines))

\* list.remove(x): drops the first element equal to x
RECURSIVE list_remove(_, _)
list_remove(lines, x) ==
    IF lines = <<>> THEN <<>>
    ELSE IF Head(lines) = x THEN Tail(lines)
    ELSE <<Head(lines)>> \o list_remove(Tail(lines), x)

RECURSIVE remove_default_doc_value(_)
remove_default_doc_value(lines) ==
    IF \E i \in 1..Len(lines) : lines[i] = default_docs
    THEN remove_default_doc_value(list_remove(lines, default_docs))
    ELSE lines

get_or_default_NoDefault(value, default) == value

\* get_or_default for a list value (str(val) of a str is the str)
get_or_default(value, default) ==
    IF Len(value) = 0 THEN <<default>> ELSE value

(***************************************************************************)
(* dynamo.docs.export.org.OrgExporter                                      *)
(***************************************************************************)
heading_prefix == "*"

\* a heading without the blank between the prefix and the name
heading_NoBlank(name, level) ==
    << [i \in 1..level |-> heading_prefix] \o name >>

heading(name, level) ==
    << [i \in 1..level |-> heading_prefix] \o <<" ">> \o name >>

is_heading(value) ==
    LET v        == IF startswith(value, <<" ">>) THEN lstrip(value) ELSE value
        splitted == split(v, " ")
        first    == strip(splitted[1])
    IN  Len(splitted) >= 2 /\ first = [i \in 1..Len(first) |-> heading_prefix]


(***************************************************************************)
(* dynamo.io.file.TextHandler and dynamo.docs.doc_models.ADocFile          *)
(***************************************************************************)
\* _write ends every line with a line end, readlines returns the lines with it
readlines(lines) == [i \in 1..Len(lines) |-> lines[i] \o <<NL>>]

\* existing_docs(): the cached list, read on the first call only
existing_docs(cache, prev) == IF cache = <<>> THEN prev ELSE cache[1]

\* a variant that goes to the handler on every call
_read_calls_Uncached(cache, count) == count + 1

\* existing_docs(): the handler is asked only while _existing_docs is None
_read_calls(cache, count) == IF cache = <<>> THEN count + 1 ELSE count

(***************************************************************************)
(* dynamo.docs.models.content: ADocContent and AHeadlineContent            *)
(***************************************************************************)
_is_content(content) ==
    IF Len(content) = 1
    THEN is_not_blank(content[1], FALSE)
    ELSE ~(\A i \in 1..Len(content) : is_blank(content[i], TRUE))

_headline_value(lines) == strip_starting_empty(lines)[1]

_is_next_heading_Never(line) == FALSE

_is_next_heading(line) == is_heading(line)

\* the loop of _set_existing_content over the lines not yet visited
RECURSIVE _scan_existing(_, _, _)
_scan_existing(collected, heading_line, lines) ==
    IF lines = <<>> THEN collected
    ELSE LET line == Head(lines)
         IN  IF Len(collected) = 0 /\ ~startswith(line, heading_line)
             THEN _scan_existing(collected, heading_line, Tail(lines))
             ELSE IF _is_next_heading(line)
             THEN collected
             ELSE _scan_existing(Append(collected, rstrip(line)), heading_line, Tail(lines))

_set_existing_content(collected, heading_lines, existing) ==
    _scan_existing(collected, _headline_value(heading_lines), existing)

\* lines[1:]
from_second(lines) == IF lines = <<>> THEN <<>> ELSE Tail(lines)

_clean_existing_content(collected) ==
    remove_default_doc_value(strip_empty(from_second(collected)))

_manual_docs_NoFallback(collected) ==
    strip_empty(_clean_existing_content(collected))

_manual_docs(collected) ==
    get_or_default(strip_empty(_clean_existing_content(collected)), default_docs)

\* AHeadlineContent._content with the body the subclass computes
_content(heading_lines, headline_content) ==
    LET content == strip_empty(headline_content)
    IN  heading_lines \o (IF _is_content(content) THEN empty_line \o content ELSE <<>>)

\* ADocContent.content of a node that has content and no children
content(heading_lines, headline_content) ==
    empty_line \o strip_empty(_content(heading_lines, headline_content))

(***************************************************************************)
(* Section-backed blocks: dynamo.docs.content.ASectionDoc and the group    *)
(* docs (dynamo.docs.manual.models.SectionDocs) the repository holds for   *)
(* the section                                                             *)
(***************************************************************************)
\* SectionDocs.content(level): the heading is the parsed title, the body the parsed text
section_doc_content(doc, level) ==
    content(strip_empty(heading(doc.title, level)), doc.body)

\* ASectionDoc._heading_content
_heading_content(node, level, collected) ==
    IF Len(node.section_docs) = 0
    THEN _manual_docs(collected)
    ELSE Flatten([k \in 1..Len(node.section_docs) |->
                     section_doc_content(node.section_docs[k], level)])

_headline(node, level) == strip_empty(heading(node.title, level))

(***************************************************************************)
(* The documents and previous texts of the model                           *)
(***************************************************************************)
SeqsUpTo(S, n) == UNION {[1..k -> S] : k \in 0..n}

Titles == { <<"A">>, <<"B">> }

SectionDocsOf == { <<>>, << [title |-> <<"G">>, body |-> << <<"m">> >>] >> }

ContentNodes == [title : Titles, section_docs : SectionDocsOf]

Models == SeqsUpTo(ContentNodes, MaxNodes) \ { <<>> }

\* lines an earlier run or the author may have left in the destination file
PrevPool ==
    { <<"*", " ", "A">>,            \* heading of section A
      <<"*", " ", "A", "B">>,       \* a longer heading with the same beginning
      <<"*", " ", "B">>,            \* heading of section B
      <<"*", "*", " ", "C">>,       \* a heading of another level
      <<"x">>,                      \* text of the author
      <<>>,                         \* a blank line
      default_docs,                 \* the placeholder
      <<" ", "*", " ", "i">> }      \* an indented list item

PrevTexts == { readlines(t) : t \in SeqsUpTo(PrevPool, MaxPrevLines) }

Done == 0 - 1

(***************************************************************************)
(* get_docs: one content node per step, then the write                     *)
(***************************************************************************)
InitDocs ==
    /\ model \in Models
    /\ previous \in PrevTexts
    /\ existing_docs_cache = <<>>
    /\ pc = 0
    /\ docs = <<>>
    /\ existing_content = [i \in 1..Len(model) |-> <<>>]
    /\ manual = [i \in 1..Len(model) |-> <<>>]
    /\ written = <<>>
    /\ lastWritten = <<>>
    /\ runs = 0
    /\ nodes = <<>>
    /\ annotation = [x |-> 0, y |-> 0, doc_type |-> "HEADING"]
    /\ closest = <<>>
    /\ link_result = "none"
    /\ last_closest = <<>>
    /\ description = <<>>
    /\ parser = <<>>
    /\ tbl_heading = <<>>
    /\ tbl_rows = <<>>
    /\ tbl_lines = <<>>
    /\ tbl_ranges = <<>>
    /\ dependencies = [packages |-> <<>>, externals |-> <<>>]
    /\ tree_docs = <<>>
    /\ hd_text = <<>>
    /\ hd_level = 0
    /\ hd_line = <<>>
    /\ hd_result = "none"
    /\ batch = <<>>
    /\ batch_idx = 0
    /\ batch_written = {}
    /\ batch_state = "done"
    /\ roots = <<>>
    /\ task = <<>>
    /\ folders = <<>>
    /\ crawl_state = "returned"
    /\ reads = 0
    /\ cl_collected = <<>>
    /\ cl_result = [returns |-> "none", lines |-> <<>>]
    /\ io_level = 0
    /\ io_nodes = <<>>
    /\ io_result = [raised |-> "pending", lines |-> <<>>]
    /\ nm_name = <<>>
    /\ nm_level = 0
    /\ nm_headline = <<>>
    /\ nd_annotations = <<>>
    /\ nd_model = 0
    /\ nd_result = [raised |-> "pending", docs |-> 0]
    /\ fs_file = [exists |-> FALSE, lines |-> <<>>]
    /\ fs_expected = [exists |-> FALSE, lines |-> <<>>]
    /\ fs_cache = <<>>
    /\ fs_result = [op |-> "none", raised |-> "none", value |-> <<>>]
    /\ rg_lines = <<>>
    /\ rg_idx = 0
    /\ rg_ranges = <<>>
    /\ rg_state = "returned"
    /\ rm_doc_files = <<>>
    /\ rm_found = <<>>
    /\ rm_removed = {}
    /\ rm_state = "done"
    /\ an_entries = <<>>
    /\ an_groups = <<>>
    /\ an_annotations = <<>>
    /\ an_state = "built"

\* docs.extend(doc_content.content(1)) for the next content node
ContentStep ==
    /\ pc # Done
    /\ pc < Len(model)
    /\ LET i         == pc + 1
           node      == model[i]
           level     == 1
           head      == _headline(node, level)
           existing  == existing_docs(existing_docs_cache, previous)
           collected == _set_existing_content(existing_content[i], head, existing)
           body      == _heading_content(node, level, collected)
       IN  /\ existing_docs_cache' = <<existing>>
           /\ existing_content' = [existing_content EXCEPT ![i] = collected]
           /\ manual' = [manual EXCEPT
                            ![i] = IF Len(node.section_docs) = 0 THEN <<body>> ELSE <<>>]
           /\ docs' = docs \o content(head, body)
           /\ pc' = i
           /\ reads' = _read_calls(existing_docs_cache, reads)
    /\ UNCHANGED <<model, previous, written, lastWritten, runs>>
    /\ UNCHANGED <<linkVars, parseVars, tableVars, treeVars, headVars, batchVars, crawlVars, cleanVars, inoutVars, nameVars, repoVars, fileVars, rangeVars, removeVars, annotVars>>

\* file.write(docs)
Write ==
    /\ pc # Done
    /\ pc = Len(model)
    /\ written' = docs
    /\ lastWritten' = written
    /\ runs' = runs + 1
    /\ pc' = Done
    /\ UNCHANGED <<model, previous, existing_docs_cache, docs, existing_content, manual,
                   reads>>
    /\ UNCHANGED <<linkVars, parseVars, tableVars, treeVars, headVars, batchVars, crawlVars, cleanVars, inoutVars, nameVars, repoVars, fileVars, rangeVars, removeVars, annotVars>>

\* the next run: a fresh repository and content tree, the previous text is
\* what the last run wrote
Regenerate ==
    /\ pc = Done
    /\ runs < MaxRuns
    /\ previous' = readlines(written)
    /\ existing_docs_cache' = <<>>
    /\ reads' = 0
    /\ pc' = 0
    /\ docs' = <<>>
    /\ existing_content' = [i \in 1..Len(model) |-> <<>>]
    /\ manual' = [i \in 1..Len(model) |-> <<>>]
    /\ UNCHANGED <<model, written, lastWritten, runs>>
    /\ UNCHANGED <<linkVars, parseVars, tableVars, treeVars, headVars, batchVars, crawlVars, cleanVars, inoutVars, nameVars, repoVars, fileVars, rangeVars, removeVars, annotVars>>

NextDocs == ContentStep \/ Write \/ Regenerate

SpecDocs == InitDocs /\ [][NextDocs]_vars


(***************************************************************************)
(* Properties of the merge with the previous text                          *)
(***************************************************************************)
Min(S) == CHOOSE m \in S : \A n \in S : m <= n
Max(S) == CHOOSE m \in S : \A n \in S : n <= m

Rendered(i) == pc = Done \/ pc >= i

HeadingOf(i) == heading(model[i].title, 1)[1]

NoModelContent(i) == Len(model[i].section_docs) = 0

EqualsLine(line, h) == line = h \/ line = h \o <<NL>>

\* indexes of the lines of text equal to the heading h
Matches(text, h) == {k \in 1..Len(text) : EqualsLine(text[k], h)}

\* indexes after k of the lines the exporter takes for a heading
HeadingsAfter(text, k) == {j \in (k + 1)..Len(text) : is_heading(text[j])}

\* the first line equal to h and the lines after it up to the next heading
BlockOf(text, h) ==
    IF Matches(text, h) = {} THEN <<>>
    ELSE LET k == Min(Matches(text, h))
             e == IF HeadingsAfter(text, k) = {} THEN Len(text)
                  ELSE Min(HeadingsAfter(text, k)) - 1
         IN  [j \in 1..(e - k + 1) |-> rstrip(text[k + j - 1])]

\* the block ends at a heading, not at the end of the text
ClosedBlock(text, h) ==
    Matches(text, h) # {} /\ HeadingsAfter(text, Min(Matches(text, h))) # {}

IsAuthorLine(line) == ~is_blank(line, TRUE) /\ line # default_docs

AuthorLines(lines) == {k \in 1..Len(lines) : IsAuthorLine(lines[k])}

NotPlaceholder(line) == line # default_docs

\* C1: a content node without model content whose heading is followed, in
\* the previous text, by lines of the author and then by another heading
\* has exactly these lines as its body.
ManualTextPreserved ==
    \A i \in 1..Len(model) :
        LET text == from_second(BlockOf(previous, HeadingOf(i)))
        IN  ( /\ Rendered(i)
              /\ NoModelContent(i)
              /\ ClosedBlock(previous, HeadingOf(i))
              /\ text # <<>>
              /\ \A k \in 1..Len(text) : IsAuthorLine(text[k]) )
            => manual[i] = <<text>>

UniqueTitle(i) == \A j \in 1..Len(model) : model[j].title = model[i].title => j = i

NoManualText(text, h) == AuthorLines(from_second(BlockOf(text, h))) = {}

SentinelCase(i) ==
    /\ NoModelContent(i)
    /\ UniqueTitle(i)
    /\ NoManualText(previous, HeadingOf(i))

ExistingBlockExtracted ==
    \A i \in 1..Len(model) :
        Rendered(i) =>
            existing_content[i] = BlockOf(existing_docs_cache[1], HeadingOf(i))

get_distance_OnlyX(point, other) ==
    (point.x - other.x) * (point.x - other.x)

\* The square of the distance the code computes: math.sqrt is strictly
\* increasing, so min and != of two distances are min and # of their squares.
get_distance(point, other) ==
    (point.x - other.x) * (point.x - other.x) + (point.y - other.y) * (point.y - other.y)

min(a, b) == IF a <= b THEN a ELSE b

\* a node trial that keeps the first of the nearest nodes
RECURSIVE _closest_loop_KeepFirst(_, _, _, _, _)
_closest_loop_KeepFirst(k, distance, found, graph, anno) ==
    IF k > Len(graph) THEN found
    ELSE LET node_distance == get_distance(graph[k], anno)
         IN  IF distance = <<>> \/ node_distance < distance[1]
             THEN _closest_loop_KeepFirst(k + 1, <<node_distance>>, <<k>>, graph, anno)
             ELSE _closest_loop_KeepFirst(k + 1, distance, found, graph, anno)

\* the for loop of linked_node from node k on: distance is <<>> for None,
\* found is the value of self._closest
RECURSIVE _closest_loop(_, _, _, _, _)
_closest_loop(k, distance, found, graph, anno) ==
    IF k > Len(graph) THEN found
    ELSE LET node_distance == get_distance(graph[k], anno)
             first         == IF distance = <<>> THEN node_distance ELSE distance[1]
             smallest      == min(node_distance, first)
         IN  IF smallest # node_distance
             THEN _closest_loop(k + 1, <<smallest>>, found, graph, anno)
             ELSE _closest_loop(k + 1, <<smallest>>, <<k>>, graph, anno)

_closest_outcome_Unchecked(found) == "node"

\* the end of linked_node: an error when no node was found
_closest_outcome(found) ==
    IF found = <<>> THEN "AttributeError" ELSE "node"

DocType == {"HEADING", "NODE"}

Coords == 0..MaxCoord

Points == [x : Coords, y : Coords]

\* the graph nodes of a file: the node id is the place in the enumeration
Graphs == SeqsUpTo(Points, MaxGraph)

InitLinker ==
    /\ model = <<>>
    /\ previous = <<>>
    /\ existing_docs_cache = <<>>
    /\ pc = Done
    /\ docs = <<>>
    /\ existing_content = <<>>
    /\ manual = <<>>
    /\ written = <<>>
    /\ lastWritten = <<>>
    /\ runs = 0
    /\ nodes \in Graphs
    /\ annotation \in [x : Coords, y : Coords, doc_type : DocType]
    /\ closest = <<>>
    /\ link_result = "none"
    /\ last_closest = <<>>
    /\ description = <<>>
    /\ parser = <<>>
    /\ tbl_heading = <<>>
    /\ tbl_rows = <<>>
    /\ tbl_lines = <<>>
    /\ tbl_ranges = <<>>
    /\ dependencies = [packages |-> <<>>, externals |-> <<>>]
    /\ tree_docs = <<>>
    /\ hd_text = <<>>
    /\ hd_level = 0
    /\ hd_line = <<>>
    /\ hd_result = "none"
    /\ batch = <<>>
    /\ batch_idx = 0
    /\ batch_written = {}
    /\ batch_state = "done"
    /\ roots = <<>>
    /\ task = <<>>
    /\ folders = <<>>
    /\ crawl_state = "returned"
    /\ reads = 0
    /\ cl_collected = <<>>
    /\ cl_result = [returns |-> "none", lines |-> <<>>]
    /\ io_level = 0
    /\ io_nodes = <<>>
    /\ io_result = [raised |-> "pending", lines |-> <<>>]
    /\ nm_name = <<>>
    /\ nm_level = 0
    /\ nm_headline = <<>>
    /\ nd_annotations = <<>>
    /\ nd_model = 0
    /\ nd_result = [raised |-> "pending", docs |-> 0]
    /\ fs_file = [exists |-> FALSE, lines |-> <<>>]
    /\ fs_expected = [exists |-> FALSE, lines |-> <<>>]
    /\ fs_cache = <<>>
    /\ fs_result = [op |-> "none", raised |-> "none", value |-> <<>>]
    /\ rg_lines = <<>>
    /\ rg_idx = 0
    /\ rg_ranges = <<>>
    /\ rg_state = "returned"
    /\ rm_doc_files = <<>>
    /\ rm_found = <<>>
    /\ rm_removed = {}
    /\ rm_state = "done"
    /\ an_entries = <<>>
    /\ an_groups = <<>>
    /\ an_annotations = <<>>
    /\ an_state = "built"

\* AnnotationDocs.linked_node()
linked_node ==
    /\ IF closest # <<>>
       THEN /\ link_result' = "node"
            /\ closest' = closest
       ELSE IF annotation.doc_type = "HEADING"
       THEN /\ link_result' = "ValueError"
            /\ closest' = closest
       ELSE LET found == _closest_loop(1, <<>>, closest, nodes, annotation)
            IN  /\ closest' = found
                /\ link_result' = _closest_outcome(found)
    /\ UNCHANGED <<nodes, annotation, last_closest>>
    /\ UNCHANGED <<docVars, parseVars, tableVars, treeVars, headVars, batchVars, crawlVars, cleanVars, inoutVars, nameVars, repoVars, fileVars, rangeVars, removeVars, annotVars>>

\* DocsNodeFactory.annotation_docs for the file after the author has moved
\* the annotation: a new AnnotationDocs, nothing linked yet
annotation_docs ==
    /\ \E p \in Points :
          /\ <<p.x, p.y>> # <<annotation.x, annotation.y>>
          /\ annotation' = [annotation EXCEPT !.x = p.x, !.y = p.y]
    /\ last_closest' = closest
    /\ closest' = <<>>
    /\ link_result' = "none"
    /\ UNCHANGED nodes
    /\ UNCHANGED <<docVars, parseVars, tableVars, treeVars, headVars, batchVars, crawlVars, cleanVars, inoutVars, nameVars, repoVars, fileVars, rangeVars, removeVars, annotVars>>

NextLink == linked_node \/ annotation_docs

SpecLink == InitLinker /\ [][NextLink]_vars

(***************************************************************************)
(* Properties of the node linkage                                          *)
(***************************************************************************)
DistanceTo(k) == get_distance(nodes[k], annotation)

Nearest == {k \in 1..Len(nodes) : \A j \in 1..Len(nodes) : DistanceTo(k) <= DistanceTo(j)}

StrictlyNearest(k) == \A j \in 1..Len(nodes) : j # k => DistanceTo(k) < DistanceTo(j)

Linked == link_result = "node"

\* C6: the node a node-scoped annotation is linked to is at most as far
\* from the annotation as every node of the file, and is the strictly
\* nearest node when there is one, also after the annotation has moved.
NearestNodeLinked ==
    (Linked /\ annotation.doc_type = "NODE") =>
        /\ closest # <<>>
        /\ closest[1] \in 1..Len(nodes)
        /\ \A j \in 1..Len(nodes) :
              (nodes[closest[1]].x - annotation.x) * (nodes[closest[1]].x - annotation.x)
              + (nodes[closest[1]].y - annotation.y) * (nodes[closest[1]].y - annotation.y)
              <= (nodes[j].x - annotation.x) * (nodes[j].x - annotation.x)
                 + (nodes[j].y - annotation.y) * (nodes[j].y - annotation.y)

WitNearestNodeLinked ==
    /\ Linked
    /\ annotation.doc_type = "NODE"
    /\ Len(nodes) >= 2
    /\ last_closest # <<>>
    /\ closest # last_closest
    /\ nodes[closest[1]] # nodes[last_closest[1]]
    /\ \A j \in 1..Len(nodes) :
          j # closest[1] =>
              (nodes[closest[1]].x - annotation.x) * (nodes[closest[1]].x - annotation.x)
              + (nodes[closest[1]].y - annotation.y) * (nodes[closest[1]].y - annotation.y)
              < (nodes[j].x - annotation.x) * (nodes[j].x - annotation.x)
                 + (nodes[j].y - annotation.y) * (nodes[j].y - annotation.y)

\* C7 as claimed: of several nearest nodes the first in enumeration order
\* is linked.
TieFirstWins ==
    (Linked /\ annotation.doc_type = "NODE") => closest = <<Min(Nearest)>>

\* C7 as amended: of several nearest nodes the last in enumeration order
\* is linked.
TieLastWins ==
    (Linked /\ annotation.doc_type = "NODE") => closest = <<Max(Nearest)>>

WitTieLastWins ==
    /\ Linked
    /\ annotation.doc_type = "NODE"
    /\ Cardinality(Nearest) >= 2
    /\ closest = <<Max(Nearest)>>
    /\ closest # <<Min(Nearest)>>

\* C8: linked_node of a node-scoped annotation in a file without nodes
\* ends with an error and leaves no node linked.
OrphanRaises ==
    (link_result # "none" /\ annotation.doc_type = "NODE" /\ Len(nodes) = 0) =>
        (link_result = "AttributeError" /\ closest = <<>>)

WitOrphanRaises ==
    /\ link_result = "AttributeError"
    /\ annotation.doc_type = "NODE"
    /\ Len(nodes) = 0
    /\ closest = <<>>


(***************************************************************************)
(* dynamo.docs.manual.models: DocSection and DocsParser                    *)
(***************************************************************************)
get_parse_value(value) == <<">">> \o value \o <<"<">>

_section(title, parse_value) ==
    [title |-> title, parse_value |-> get_parse_value(parse_value), doc_type |-> "HEADING"]

unknown == [title |-> "UNKNOWN", parse_value |-> <<>>, doc_type |-> "HEADING"]

\* dataclass equality: title is the only field that is compared
is_unknown(section) == section.title = unknown.title

\* _doc_sections(): the module's sections in the order of their definition
_doc_sections ==
    << _section("Informationen", <<"I">>),
       _section("Beschreibung", <<"B">>),
       _section("Anleitung", <<"D">>),
       _section("Eingabe", <<"E">>),
       _section("Ausgabe", <<"A">>),
       _section("Dateien", <<"F">>),
       _section("Problem / Loesung", <<"?">>),
       _section("Warnungen", <<"!">>) >>

is_section_StartOnly(section, value) ==
    IF Len(section.parse_value) = 0 THEN FALSE
    ELSE startswith(value, section.parse_value)

is_section(section, value) ==
    IF Len(section.parse_value) = 0 THEN FALSE
    ELSE startswith(value, section.parse_value) /\ endswith(value, section.parse_value)

\* the loop of _get_doc_heading over the sections from the k-th on
RECURSIVE _first_section(_, _)
_first_section(k, line) ==
    IF k > Len(_doc_sections) THEN unknown
    ELSE IF is_section(_doc_sections[k], line) THEN _doc_sections[k]
    ELSE _first_section(k + 1, line)

_get_doc_heading(line) == _first_section(1, strip(line))

\* DocsParser._get_lines
_get_lines(desc) == splitlines(IF desc = <<>> THEN <<>> ELSE desc[1])

\* a loop that goes on after a section line and keeps the last one
RECURSIVE _parse_loop_NoBreak(_, _, _, _)
_parse_loop_NoBreak(idx, lines, section, start_idx) ==
    IF idx >= Len(lines) THEN [_section |-> section, _start_idx |-> start_idx]
    ELSE IF is_unknown(_get_doc_heading(lines[idx + 1]))
    THEN _parse_loop_NoBreak(idx + 1, lines, section, start_idx)
    ELSE _parse_loop_NoBreak(idx + 1, lines, _get_doc_heading(lines[idx + 1]), idx)

\* the loop of DocsParser._parse from the line with index idx (from 0) on
RECURSIVE _parse_loop(_, _, _, _)
_parse_loop(idx, lines, section, start_idx) ==
    IF idx >= Len(lines) THEN [_section |-> section, _start_idx |-> start_idx]
    ELSE IF is_unknown(_get_doc_heading(lines[idx + 1]))
    THEN _parse_loop(idx + 1, lines, section, start_idx)
    ELSE [_section |-> _get_doc_heading(lines[idx + 1]), _start_idx |-> idx]

\* the section a new parser holds is the first of the module, not the unknown one
_parse_DefaultFirst(lines) == _parse_loop(0, lines, _doc_sections[1], 0 - 1)

_parse(lines) == _parse_loop(0, lines, unknown, 0 - 1)

has_section(p) == ~is_unknown(p._section)

\* DocsParser.content: lines[_start_idx + 1:] without blank lines around
parser_content(p) ==
    strip_empty(SubSeq(p._lines, p._start_idx + 2, Len(p._lines)))

\* self._lines[self._start_idx]: an index below zero counts from the end
_start_line(p) ==
    IF p._start_idx >= 0 THEN p._lines[p._start_idx + 1]
    ELSE p._lines[Len(p._lines) + 1 + p._start_idx]

\* DocsParser._splitted_first_line
_splitted_first_line(p) ==
    split(strip(replace(_start_line(p), p._section.parse_value, <<>>)), " ")

\* DocsParser._has_number
_has_number(values) == isnumeric(strip(values[1]))

\* DocsParser.number(): <<>> is None, <<n>> the float n; list index out of
\* range when the text has no line
number(p) ==
    IF p._lines = <<>> THEN "IndexError"
    ELSE LET values == _splitted_first_line(p)
         IN  IF ~_has_number(values) THEN <<>> ELSE <<float(strip(values[1]))>>

\* DocsParser.title()
title(p) ==
    IF p._lines = <<>> THEN "IndexError"
    ELSE LET values == _splitted_first_line(p)
             rest   == IF _has_number(values) THEN Tail(values) ELSE values
         IN  join([k \in 1..Len(rest) |-> strip(rest[k])], <<" ">>)

\* lines of an annotation text
TextPool ==
    { <<">", "B", "<", " ", "T", " ", ">", "B", "<">>,            \* a section line
      <<">", "B", "<">>,                                          \* the marker alone
      <<">", "B", "<", " ", "T", " ", ">", "B", "<", " ", "x">>,  \* text after the closing marker
      <<" ", ">", "B", "<", " ", "T", " ", ">", "B", "<", " ">>,  \* a section line with blanks around
      <<">", "D", "<", " ", "T", " ", ">", "D", "<">>,            \* a line of another section
      <<">", "B", "<", " ", "T", " ", ">", "D", "<">>,            \* two different markers
      <<"x", " ", ">", "B", "<">>,                                \* text before the marker
      <<"t">>,                                                    \* text
      <<">", "B", "<", "1", "2", " ", "T", " ", ">", "B", "<">>,  \* a number before the title
      <<">", "B", "<", "1", ".", "5", " ", "T", ">", "B", "<">>,  \* a decimal number before the title
      <<">", "B", "<", "7", " ", " ", "T", ">", "B", "<">>,       \* two blanks after the number
      <<" ">>,                                                    \* a line of blanks
      <<>> }                                                      \* a blank line

\* the description field: None, or the lines joined, with or without a last line end
\* lines of the body of a section
BodyPool == { <<"t">>, <<" ">>, <<>> }

\* a section line and a body of up to MaxBodyLines lines
SectionTexts ==
    { << <<">", "B", "<", " ", "T", " ", ">", "B", "<">> >> \o b :
          b \in SeqsUpTo(BodyPool, MaxBodyLines) }

Descriptions ==
    { <<>> } \cup
    { <<join(t, <<NL>>)>> : t \in SeqsUpTo(TextPool, MaxTextLines) \cup SectionTexts } \cup
    { <<join(t, <<NL>>) \o <<NL>> >> : t \in SeqsUpTo(TextPool, MaxTextLines) }

InitParser ==
    /\ model = <<>>
    /\ previous = <<>>
    /\ existing_docs_cache = <<>>
    /\ pc = Done
    /\ docs = <<>>
    /\ existing_content = <<>>
    /\ manual = <<>>
    /\ written = <<>>
    /\ lastWritten = <<>>
    /\ runs = 0
    /\ nodes = <<>>
    /\ annotation = [x |-> 0, y |-> 0, doc_type |-> "HEADING"]
    /\ closest = <<>>
    /\ link_result = "none"
    /\ last_closest = <<>>
    /\ description \in Descriptions
    /\ parser = <<>>
    /\ tbl_heading = <<>>
    /\ tbl_rows = <<>>
    /\ tbl_lines = <<>>
    /\ tbl_ranges = <<>>
    /\ dependencies = [packages |-> <<>>, externals |-> <<>>]
    /\ tree_docs = <<>>
    /\ hd_text = <<>>
    /\ hd_level = 0
    /\ hd_line = <<>>
    /\ hd_result = "none"
    /\ batch = <<>>
    /\ batch_idx = 0
    /\ batch_written = {}
    /\ batch_state = "done"
    /\ roots = <<>>
    /\ task = <<>>
    /\ folders = <<>>
    /\ crawl_state = "returned"
    /\ reads = 0
    /\ cl_collected = <<>>
    /\ cl_result = [returns |-> "none", lines |-> <<>>]
    /\ io_level = 0
    /\ io_nodes = <<>>
    /\ io_result = [raised |-> "pending", lines |-> <<>>]
    /\ nm_name = <<>>
    /\ nm_level = 0
    /\ nm_headline = <<>>
    /\ nd_annotations = <<>>
    /\ nd_model = 0
    /\ nd_result = [raised |-> "pending", docs |-> 0]
    /\ fs_file = [exists |-> FALSE, lines |-> <<>>]
    /\ fs_expected = [exists |-> FALSE, lines |-> <<>>]
    /\ fs_cache = <<>>
    /\ fs_result = [op |-> "none", raised |-> "none", value |-> <<>>]
    /\ rg_lines = <<>>
    /\ rg_idx = 0
    /\ rg_ranges = <<>>
    /\ rg_state = "returned"
    /\ rm_doc_files = <<>>
    /\ rm_found = <<>>
    /\ rm_removed = {}
    /\ rm_state = "done"
    /\ an_entries = <<>>
    /\ an_groups = <<>>
    /\ an_annotations = <<>>
    /\ an_state = "built"

\* DocsParser.__init__
DocsParser ==
    /\ parser = <<>>
    /\ LET lines  == _get_lines(description)
           parsed == _parse(lines)
       IN  parser' = << [_lines |-> lines,
                         _section |-> parsed._section,
                         _start_idx |-> parsed._start_idx] >>
    /\ UNCHANGED description
    /\ UNCHANGED <<docVars, linkVars, tableVars, treeVars, headVars, batchVars, crawlVars, cleanVars, inoutVars, nameVars, repoVars, fileVars, rangeVars, removeVars, annotVars>>

NextParse == DocsParser

SpecParse == InitParser /\ [][NextParse]_vars

(***************************************************************************)
(* Properties of the section markup parser                                 *)
(***************************************************************************)
Markers == {_doc_sections[k].parse_value : k \in 1..Len(_doc_sections)}

\* the trimmed line begins with a marker and ends with the same marker
MarkedBy(line, marker) ==
    LET t == strip(line)
    IN  /\ Len(t) >= Len(marker)
        /\ \A c \in 1..Len(marker) :
              t[c] = marker[c] /\ t[Len(t) - Len(marker) + c] = marker[c]

IsSectionLine(line) == \E marker \in Markers : MarkedBy(line, marker)

SectionLines(lines) == {k \in 1..Len(lines) : IsSectionLine(lines[k])}

\* C9: the parser takes the section and the index of the first section
\* line; the lines of the body come after that line, whatever section
\* lines follow.
FirstMarkerWins ==
    (parser # <<>> /\ SectionLines(parser[1]._lines) # {}) =>
        LET p     == parser[1]
            first == Min(SectionLines(p._lines))
        IN  /\ p._start_idx = first - 1
            /\ MarkedBy(p._lines[first], p._section.parse_value)
            /\ Len(parser_content(p)) <= Len(p._lines) - first
            /\ \A k \in 1..Len(parser_content(p)) :
                  \E j \in (first + 1)..Len(p._lines) : parser_content(p)[k] = p._lines[j]

WitFirstMarkerWins ==
    /\ parser # <<>>
    /\ Cardinality(SectionLines(parser[1]._lines)) >= 2
    /\ Min(SectionLines(parser[1]._lines)) >= 2
    /\ parser[1]._start_idx = Min(SectionLines(parser[1]._lines)) - 1
    /\ \E k \in SectionLines(parser[1]._lines) :
          ~MarkedBy(parser[1]._lines[k], parser[1]._section.parse_value)

\* C10: has_section() holds exactly when some line of the text, trimmed,
\* begins and ends with the marker of one section.
SectionRecognised ==
    parser # <<>> =>
        (has_section(parser[1]) <=> SectionLines(parser[1]._lines) # {})

WitSectionRecognised ==
    /\ parser # <<>>
    /\ ~has_section(parser[1])
    /\ \E k \in 1..Len(parser[1]._lines) :
          parser[1]._lines[k] = <<">", "B", "<", " ", "T", " ", ">", "B", "<", " ", "x">>

\* the marker line of a parser that found a section, without the markers
\* and the blanks around
BareMarkerLine(p) ==
    strip(replace(p._lines[Min(SectionLines(p._lines))], p._section.parse_value, <<>>))

FirstToken(line) == split(line, " ")[1]

\* a decimal numeral: digits, with at most one point among them
IsNumeral(tok) ==
    /\ \E i \in 1..Len(tok) : isnumeric(<<tok[i]>>)
    /\ \A i \in 1..Len(tok) : isnumeric(<<tok[i]>>) \/ tok[i] = "."
    /\ Cardinality({i \in 1..Len(tok) : tok[i] = "."}) <= 1

\* C11: number() is the leading token of the marker line as a float when
\* that token is numeric and None otherwise; title() is the marker line
\* without markers, without that leading number, trimmed.
NumberAndTitle ==
    (parser # <<>> /\ has_section(parser[1])) =>
        LET p     == parser[1]
            bare  == BareMarkerLine(p)
            first == FirstToken(bare)
        IN  IF IsNumeral(first)
            THEN /\ number(p) # <<>>
                 /\ isnumeric(first) => number(p) = <<float(first)>>
                 /\ title(p) = strip(SubSeq(bare, Len(first) + 1, Len(bare)))
            ELSE /\ number(p) = <<>>
                 /\ title(p) = bare

\* C12: content() is the lines after the marker line, from the first to
\* the last line that is not blank, blank lines between them included.
SectionBody ==
    (parser # <<>> /\ has_section(parser[1])) =>
        LET p        == parser[1]
            first    == Min(SectionLines(p._lines))
            after    == SubSeq(p._lines, first + 1, Len(p._lines))
            nonblank == {k \in 1..Len(after) : strip(after[k]) # <<>>}
        IN  strip_empty(SubSeq(p._lines, p._start_idx + 2, Len(p._lines)))
                = IF nonblank = {} THEN <<>>
                  ELSE SubSeq(after, Min(nonblank), Max(nonblank))

WitSectionBody ==
    /\ parser # <<>>
    /\ has_section(parser[1])
    /\ Len(parser[1]._lines) = 6
    /\ strip(parser[1]._lines[2]) = <<>>
    /\ strip(parser[1]._lines[6]) = <<>>
    /\ parser_content(parser[1]) = << <<"t">>, <<>>, <<"t">> >>

\* C13: a parser built for a text that is None or empty has no lines and
\* no section.
EmptyTextNoSection ==
    (parser # <<>> /\ description \in { <<>>, << <<>> >> }) =>
        /\ ~has_section(parser[1])
        /\ parser[1]._lines = <<>>
        /\ parser[1]._start_idx = 0 - 1

WitEmptyTextNoSection ==
    /\ parser # <<>>
    /\ description = <<>>
    /\ ~has_section(parser[1])

(***************************************************************************)
(* dynamo.docs.export.org: OrgLinkCreator, OrgTableCreator and the tables  *)
(* of OrgExporter; dynamo.utils.string.clean_value                         *)
(***************************************************************************)
separator == "|"

horizontal_separator == "+"

\* s.split(sep) for a separator of several characters
RECURSIVE split_str(_, _)
split_str(s, sep) ==
    IF \E i \in 1..(Len(s) - Len(sep) + 1) : SubSeq(s, i, i + Len(sep) - 1) = sep
    THEN LET k == CHOOSE i \in 1..(Len(s) - Len(sep) + 1) :
                      /\ SubSeq(s, i, i + Len(sep) - 1) = sep
                      /\ \A j \in 1..(i - 1) : SubSeq(s, j, j + Len(sep) - 1) # sep
         IN  <<SubSeq(s, 1, k - 1)>> \o split_str(SubSeq(s, k + Len(sep), Len(s)), sep)
    ELSE <<s>>

\* OrgLinkCreator.is_link: '][' in value
is_link(value) == Len(split_str(value, <<"]", "[">>)) > 1

\* string.CLEAN_VALUES in the order of the dict (its one character outside
\* ASCII is not in the alphabet of the model)
CLEAN_VALUES ==
    << <<"%", <<>> >>, <<"[", <<>> >>, <<"]", <<>> >>, <<"&", <<>> >>,
       <<"(", <<>> >>, <<")", <<>> >>, <<".", <<"-">> >> >>

RECURSIVE _clean_loop(_, _)
_clean_loop(value, k) ==
    IF k > Len(CLEAN_VALUES) THEN value
    ELSE _clean_loop(replace(value, <<CLEAN_VALUES[k][1]>>, CLEAN_VALUES[k][2]), k + 1)

clean_value(value) == strip(_clean_loop(value, 1))

\* OrgLinkCreator.link_values of a link: the link and the name it displays
link_values(value) ==
    LET splitted == split_str(value, <<"]", "[">>)
    IN  <<clean_value(splitted[1]), clean_value(splitted[2])>>

_cell_without_link(value) ==
    strip(IF is_link(value) THEN link_values(value)[2] ELSE value)

_get_column_count(headings, rows) ==
    Max({Len(headings)} \cup {Len(rows[k]) : k \in 1..Len(rows)})

_column_sizes(headings, rows) ==
    [idx \in 1.._get_column_count(headings, rows) |->
        Max({0}
            \cup {Len(headings[i]) : i \in {idx} \cap (1..Len(headings))}
            \cup {Len(_cell_without_link(rows[k][idx])) :
                      k \in {r \in 1..Len(rows) : idx <= Len(rows[r])}})]

_get_cell(cell, index, column_size) ==
    LET c    == strip(cell)
        fill == column_size[index] - Len(_cell_without_link(c))
    IN  <<" ">> \o c \o [i \in 1..fill |-> " "] \o <<" ">>

_get_row(value) == <<separator>> \o value \o <<separator>>

_create_row(values, column_size) ==
    _get_row(join([idx \in 1..Len(values) |-> _get_cell(values[idx], idx, column_size)],
                  <<separator>>))

_create_horizontal_line(headings, column_size) ==
    _get_row(join([idx \in 1..Len(headings) |->
                      [i \in 1..Len(_get_cell(headings[idx], idx, column_size)) |-> "-"]],
                  <<horizontal_separator>>))

\* OrgTableCreator(headings, rows).create()
create(headings, rows) ==
    LET column_size == _column_sizes(headings, rows)
    IN  (IF Len(headings) > 0
         THEN <<_create_row(headings, column_size),
                _create_horizontal_line(headings, column_size)>>
         ELSE <<>>)
        \o [k \in 1..Len(rows) |-> _create_row(rows[k], column_size)]

\* a table that ends with its first line
_table_end_FirstLine(start_index, lines) == start_index + 1

\* OrgExporter._table_end: indexes count from 0
_table_end(start_index, lines) ==
    LET other == {idx \in start_index..(Len(lines) - 1) :
                     ~startswith(lines[idx + 1], <<separator>>)}
    IN  IF other = {} THEN Len(lines) ELSE Min(other)

\* the loop of OrgExporter.table_ranges from index idx on; when a table ends
\* where it starts idx does not move and the loop does not end
RECURSIVE _table_ranges_loop(_, _, _)
_table_ranges_loop(idx, ranges, lines) ==
    IF idx >= Len(lines) THEN [ranges |-> ranges, returns |-> TRUE]
    ELSE IF ~startswith(lstrip(lines[idx + 1]), <<separator>>)
    THEN _table_ranges_loop(idx + 1, ranges, lines)
    ELSE LET end_idx == _table_end(idx, lines)
         IN  IF end_idx = idx
             THEN [ranges |-> Append(ranges, <<idx, end_idx>>), returns |-> FALSE]
             ELSE _table_ranges_loop(end_idx, Append(ranges, <<idx, end_idx>>), lines)

\* cells of a table: text, and a link that displays a name
Cells == { <<"x">>, <<"[", "[", "f", "]", "[", "d", "d", "]", "]">> }

TableRows == SeqsUpTo(Cells, MaxCols)

InitTable ==
    /\ model = <<>>
    /\ previous = <<>>
    /\ existing_docs_cache = <<>>
    /\ pc = Done
    /\ docs = <<>>
    /\ existing_content = <<>>
    /\ manual = <<>>
    /\ written = <<>>
    /\ lastWritten = <<>>
    /\ runs = 0
    /\ nodes = <<>>
    /\ annotation = [x |-> 0, y |-> 0, doc_type |-> "HEADING"]
    /\ closest = <<>>
    /\ link_result = "none"
    /\ last_closest = <<>>
    /\ description = <<>>
    /\ parser = <<>>
    /\ tbl_lines = <<>>
    /\ tbl_ranges = <<>>
    /\ dependencies = [packages |-> <<>>, externals |-> <<>>]
    /\ tree_docs = <<>>
    /\ hd_text = <<>>
    /\ hd_level = 0
    /\ hd_line = <<>>
    /\ hd_result = "none"
    /\ batch = <<>>
    /\ batch_idx = 0
    /\ batch_written = {}
    /\ batch_state = "done"
    /\ roots = <<>>
    /\ task = <<>>
    /\ folders = <<>>
    /\ crawl_state = "returned"
    /\ tbl_heading \in TableRows
    /\ tbl_rows \in SeqsUpTo(TableRows, MaxRows)
    /\ reads = 0
    /\ cl_collected = <<>>
    /\ cl_result = [returns |-> "none", lines |-> <<>>]
    /\ io_level = 0
    /\ io_nodes = <<>>
    /\ io_result = [raised |-> "pending", lines |-> <<>>]
    /\ nm_name = <<>>
    /\ nm_level = 0
    /\ nm_headline = <<>>
    /\ nd_annotations = <<>>
    /\ nd_model = 0
    /\ nd_result = [raised |-> "pending", docs |-> 0]
    /\ fs_file = [exists |-> FALSE, lines |-> <<>>]
    /\ fs_expected = [exists |-> FALSE, lines |-> <<>>]
    /\ fs_cache = <<>>
    /\ fs_result = [op |-> "none", raised |-> "none", value |-> <<>>]
    /\ rg_lines = <<>>
    /\ rg_idx = 0
    /\ rg_ranges = <<>>
    /\ rg_state = "returned"
    /\ rm_doc_files = <<>>
    /\ rm_found = <<>>
    /\ rm_removed = {}
    /\ rm_state = "done"
    /\ an_entries = <<>>
    /\ an_groups = <<>>
    /\ an_annotations = <<>>
    /\ an_state = "built"

\* OrgExporter.as_table(heading, lines)
as_table ==
    /\ tbl_lines = <<>>
    /\ tbl_lines' = <<create(tbl_heading, tbl_rows)>>
    /\ UNCHANGED <<tbl_heading, tbl_rows, tbl_ranges>>
    /\ UNCHANGED <<docVars, linkVars, parseVars, treeVars, headVars, batchVars, crawlVars, cleanVars, inoutVars, nameVars, repoVars, fileVars, rangeVars, removeVars, annotVars>>

\* OrgExporter.table_ranges(lines) on the lines as_table returned
table_ranges ==
    /\ tbl_lines # <<>>
    /\ tbl_ranges = <<>>
    /\ tbl_ranges' = <<_table_ranges_loop(0, <<>>, tbl_lines[1])>>
    /\ UNCHANGED <<tbl_heading, tbl_rows, tbl_lines>>
    /\ UNCHANGED <<docVars, linkVars, parseVars, treeVars, headVars, batchVars, crawlVars, cleanVars, inoutVars, nameVars, repoVars, fileVars, rangeVars, removeVars, annotVars>>

NextTable == as_table \/ table_ranges

SpecTable == InitTable /\ [][NextTable]_vars

\* C16: the ranges of the lines as_table emits for a header row and at
\* least one data row are one range, from the first line to the last:
\* header, separator line and every data row.
TableRoundTrip ==
    (tbl_ranges # <<>> /\ Len(tbl_rows) > 0) =>
        /\ tbl_ranges[1].returns
        /\ tbl_ranges[1].ranges = << <<0, Len(tbl_lines[1])>> >>
        /\ Len(tbl_lines[1]) = Len(tbl_rows) + (IF Len(tbl_heading) > 0 THEN 2 ELSE 0)

WitTableRoundTrip ==
    /\ tbl_ranges # <<>>
    /\ Len(tbl_heading) = 2
    /\ Len(tbl_rows) = 1
    /\ Len(tbl_rows[1]) = 2
    /\ tbl_ranges[1].ranges = << <<0, 3>> >>

(***************************************************************************)
(* dynamo.docs.custom.dependencies_docs: the dependencies subtree          *)
(* (dynamo.docs.models.headlines and dynamo.docs.models.nodes)             *)
(***************************************************************************)
\* OrgExporter.as_list(values) with level 0 and symbol '-'
as_list(values) == [k \in 1..Len(values) |-> <<"-", " ">> \o values[k]]

\* ADocContent._has_child_content for the has_content() values of the children
_has_child_content(children) ==
    IF Len(children) = 0 THEN FALSE ELSE \E k \in 1..Len(children) : children[k]

\* ADocContent._child_content for the content() values of the children
RECURSIVE _child_content(_)
_child_content(children) ==
    IF children = <<>> THEN <<>>
    ELSE LET child_content == strip_empty(Head(children))
         IN  (IF _is_content(child_content) THEN empty_line \o child_content ELSE <<>>)
             \o _child_content(Tail(children))

\* ADocContent.content: has is has_content(), own the value of _content,
\* has_child the value of _has_child_content, child the value of _child_content
ADocContent_content(has, own, has_child, child) ==
    LET child_content == strip_empty(child)
    IN  (IF has THEN empty_line \o strip_empty(own) ELSE <<>>)
        \o (IF has_child /\ _is_content(child_content)
            THEN empty_line \o child_content ELSE <<>>)

\* PackageDependency.full_name
full_name(package) == package.name \o <<" ", "[">> \o package.version \o <<"]">>

\* PackageDependencyDocs._headline_content: a table of the package's nodes
\* (no node of the model has a document of its own to link to)
PackageDependencyDocs_headline_content(package) ==
    create(<< <<"N", "a", "m", "e">>, <<"U", "U", "I", "D">> >>,
           [k \in 1..Len(package.nodes) |-> <<package.nodes[k].name, package.nodes[k].uuid>>])

\* PackageDependencyDocs.content(level, node=package)
PackageDependencyDocs(package, level) ==
    content(strip_empty(heading(full_name(package), level)),
            PackageDependencyDocs_headline_content(package))

\* ExternalDependencyDocs._headline_content
ExternalDependencyDocs_headline_content(external) ==
    IF Len(external.nodes) = 0
    THEN << <<"K", "e", "i", "n", "e", " ", "N", "o", "d", "e", "s">> >>
    ELSE as_list(external.nodes)

\* ExternalDependencyDocs.content(level, node=external)
ExternalDependencyDocs(external, level) ==
    content(strip_empty(heading(external.name, level)),
            ExternalDependencyDocs_headline_content(external))

Packages_headline == <<"P", "a", "c", "k", "a", "g", "e", "s">>

External_headline == <<"E", "x", "t", "e", "r", "n", "a", "l">>

\* 'Abhaengigkeiten' stands for the headline, whose fourth letter is an a-umlaut
Dependencies_headline ==
    <<"A", "b", "h", "a", "e", "n", "g", "i", "g", "k", "e", "i", "t", "e", "n">>

PackageDependenciesDocs_has_content(deps) == Len(deps.packages) > 0

\* PackageDependenciesDocs._child_content
PackageDependenciesDocs_child_content(deps, level) ==
    Flatten([k \in 1..Len(deps.packages) |->
                strip_empty(PackageDependencyDocs(deps.packages[k], level))])

\* PackageDependenciesDocs.content(level)
PackageDependenciesDocs(deps, level) ==
    ADocContent_content(PackageDependenciesDocs_has_content(deps),
                        _content(strip_empty(heading(Packages_headline, level)), empty_line),
                        _has_child_content(<<TRUE>>),
                        PackageDependenciesDocs_child_content(deps, level + 1))

\* a headline that is there whatever the file depends on
ExternalDependenciesDocs_has_content_Always(deps) == TRUE

ExternalDependenciesDocs_has_content(deps) == Len(deps.externals) > 0

\* ExternalDependenciesDocs._child_content
ExternalDependenciesDocs_child_content(deps, level) ==
    Flatten([k \in 1..Len(deps.externals) |->
                strip_empty(ExternalDependencyDocs(deps.externals[k], level))])

\* ExternalDependenciesDocs.content(level)
ExternalDependenciesDocs(deps, level) ==
    ADocContent_content(ExternalDependenciesDocs_has_content(deps),
                        _content(strip_empty(heading(External_headline, level)), empty_line),
                        _has_child_content(<<TRUE>>),
                        ExternalDependenciesDocs_child_content(deps, level + 1))

\* a check that asks the first child only
DependenciesDocs_has_content_FirstChild(deps) == PackageDependenciesDocs_has_content(deps)

DependenciesDocs_has_content(deps) ==
    \/ PackageDependenciesDocs_has_content(deps)
    \/ ExternalDependenciesDocs_has_content(deps)

\* DependenciesDocs.content(level)
DependenciesDocs(deps, level) ==
    ADocContent_content(DependenciesDocs_has_content(deps),
                        _content(strip_empty(heading(Dependencies_headline, level)), empty_line),
                        _has_child_content(<<PackageDependenciesDocs_has_content(deps),
                                             ExternalDependenciesDocs_has_content(deps)>>),
                        _child_content(<<PackageDependenciesDocs(deps, level + 1),
                                         ExternalDependenciesDocs(deps, level + 1)>>))

\* get_dependencies returns the dependencies sorted by name
SortedByName(deps) ==
    \A i, j \in 1..Len(deps) : i < j => deps[i].name[1] <= deps[j].name[1]

PackagePool ==
    [name : {<<1>>, <<2>>}, version : {<<"1">>},
     nodes : {<<>>, <<[name |-> <<"c">>, uuid |-> <<"u">>]>>}]

ExternalPool == [name : {<<1>>, <<2>>}, nodes : {<<>>, << <<"n">> >>}]

\* the name of a dependency is a letter
Named(deps, letters) ==
    [k \in 1..Len(deps) |-> [deps[k] EXCEPT !.name = <<letters[deps[k].name[1]]>>]]

InitTree ==
    /\ model = <<>>
    /\ previous = <<>>
    /\ existing_docs_cache = <<>>
    /\ pc = Done
    /\ docs = <<>>
    /\ existing_content = <<>>
    /\ manual = <<>>
    /\ written = <<>>
    /\ lastWritten = <<>>
    /\ runs = 0
    /\ nodes = <<>>
    /\ annotation = [x |-> 0, y |-> 0, doc_type |-> "HEADING"]
    /\ closest = <<>>
    /\ link_result = "none"
    /\ last_closest = <<>>
    /\ description = <<>>
    /\ parser = <<>>
    /\ tbl_heading = <<>>
    /\ tbl_rows = <<>>
    /\ tbl_lines = <<>>
    /\ tbl_ranges = <<>>
    /\ tree_docs = <<>>
    /\ hd_text = <<>>
    /\ hd_level = 0
    /\ hd_line = <<>>
    /\ hd_result = "none"
    /\ batch = <<>>
    /\ batch_idx = 0
    /\ batch_written = {}
    /\ batch_state = "done"
    /\ roots = <<>>
    /\ task = <<>>
    /\ folders = <<>>
    /\ crawl_state = "returned"
    /\ \E p \in {d \in SeqsUpTo(PackagePool, MaxDeps) : SortedByName(d)},
          e \in {d \in SeqsUpTo(ExternalPool, MaxDeps) : SortedByName(d)} :
          dependencies = [packages |-> Named(p, <<"P", "Q">>),
                          externals |-> Named(e, <<"X", "Y">>)]
    /\ reads = 0
    /\ cl_collected = <<>>
    /\ cl_result = [returns |-> "none", lines |-> <<>>]
    /\ io_level = 0
    /\ io_nodes = <<>>
    /\ io_result = [raised |-> "pending", lines |-> <<>>]
    /\ nm_name = <<>>
    /\ nm_level = 0
    /\ nm_headline = <<>>
    /\ nd_annotations = <<>>
    /\ nd_model = 0
    /\ nd_result = [raised |-> "pending", docs |-> 0]
    /\ fs_file = [exists |-> FALSE, lines |-> <<>>]
    /\ fs_expected = [exists |-> FALSE, lines |-> <<>>]
    /\ fs_cache = <<>>
    /\ fs_result = [op |-> "none", raised |-> "none", value |-> <<>>]
    /\ rg_lines = <<>>
    /\ rg_idx = 0
    /\ rg_ranges = <<>>
    /\ rg_state = "returned"
    /\ rm_doc_files = <<>>
    /\ rm_found = <<>>
    /\ rm_removed = {}
    /\ rm_state = "done"
    /\ an_entries = <<>>
    /\ an_groups = <<>>
    /\ an_annotations = <<>>
    /\ an_state = "built"

\* lines.extend(dependencies_docs(file_docs).content(1))
dependencies_docs ==
    /\ tree_docs = <<>>
    /\ tree_docs' = <<DependenciesDocs(dependencies, 1)>>
    /\ UNCHANGED dependencies
    /\ UNCHANGED <<docVars, linkVars, parseVars, tableVars, headVars, batchVars, crawlVars, cleanVars, inoutVars, nameVars, repoVars, fileVars, rangeVars, removeVars, annotVars>>

NextTree == dependencies_docs

SpecTree == InitTree /\ [][NextTree]_vars

(***************************************************************************)
(* Properties of the dependencies subtree                                  *)
(***************************************************************************)
NonBlank(lines) == \E k \in 1..Len(lines) : strip(lines[k]) # <<>>

HeadlineAt(lines, headline, level) ==
    {k \in 1..Len(lines) : lines[k] = [i \in 1..level |-> "*"] \o <<" ">> \o headline}

\* C14: without external dependencies the document has no line with the
\* headline of the external dependencies, without any dependency it has no
\* line with the headline of the dependencies either, and a headline that
\* is there has a line that is not blank after it.
EmptySubtreeSuppressed ==
    tree_docs # <<>> =>
        LET lines == tree_docs[1]
        IN  /\ Len(dependencies.externals) = 0 =>
                   \A level \in 1..3 : HeadlineAt(lines, External_headline, level) = {}
            /\ (Len(dependencies.externals) = 0 /\ Len(dependencies.packages) = 0) =>
                   /\ \A level \in 1..3 : HeadlineAt(lines, Dependencies_headline, level) = {}
                   /\ ~NonBlank(lines)
            /\ \A headline \in {External_headline, Packages_headline, Dependencies_headline} :
                   \A level \in 1..3 : \A k \in HeadlineAt(lines, headline, level) :
                       NonBlank(SubSeq(lines, k + 1, Len(lines)))

WitEmptySubtreeSuppressed ==
    /\ tree_docs # <<>>
    /\ Len(dependencies.externals) = 0
    /\ Len(dependencies.packages) > 0
    /\ HeadlineAt(tree_docs[1], Dependencies_headline, 1) # {}
    /\ HeadlineAt(tree_docs[1], Packages_headline, 2) # {}
    /\ HeadlineAt(tree_docs[1], External_headline, 2) = {}

HeadingTexts ==
    { <<>>, <<"x">>, <<"a", " ", "b">>, <<" ", "x">>, <<"*", " ", "x">>,
      <<"x", " ">>, <<"*">> }

\* lines of a body
BodyLines ==
    { <<" ", "*", " ", "i">>,            \* an indented list item
      <<"*", "b", "*", " ", "t">>,       \* bold text
      <<"*", "x">>,
      <<"*">>,
      <<"x">>,
      <<"-", " ", "x">>,
      <<"a", " ", "*", " ", "b">>,
      <<"|", " ", "t", " ", "|">>,
      <<>> }

InitHeading ==
    /\ model = <<>>
    /\ previous = <<>>
    /\ existing_docs_cache = <<>>
    /\ pc = Done
    /\ docs = <<>>
    /\ existing_content = <<>>
    /\ manual = <<>>
    /\ written = <<>>
    /\ lastWritten = <<>>
    /\ runs = 0
    /\ nodes = <<>>
    /\ annotation = [x |-> 0, y |-> 0, doc_type |-> "HEADING"]
    /\ closest = <<>>
    /\ link_result = "none"
    /\ last_closest = <<>>
    /\ description = <<>>
    /\ parser = <<>>
    /\ tbl_heading = <<>>
    /\ tbl_rows = <<>>
    /\ tbl_lines = <<>>
    /\ tbl_ranges = <<>>
    /\ dependencies = [packages |-> <<>>, externals |-> <<>>]
    /\ tree_docs = <<>>
    /\ hd_result = "none"
    /\ batch = <<>>
    /\ batch_idx = 0
    /\ batch_written = {}
    /\ batch_state = "done"
    /\ roots = <<>>
    /\ task = <<>>
    /\ folders = <<>>
    /\ crawl_state = "returned"
    /\ \/ /\ hd_level \in 1..MaxLevel
          /\ hd_text \in HeadingTexts
          /\ hd_line = <<>>
       \/ /\ hd_level = 0
          /\ hd_text = <<>>
          /\ hd_line \in {<<line>> : line \in BodyLines}
    /\ reads = 0
    /\ cl_collected = <<>>
    /\ cl_result = [returns |-> "none", lines |-> <<>>]
    /\ io_level = 0
    /\ io_nodes = <<>>
    /\ io_result = [raised |-> "pending", lines |-> <<>>]
    /\ nm_name = <<>>
    /\ nm_level = 0
    /\ nm_headline = <<>>
    /\ nd_annotations = <<>>
    /\ nd_model = 0
    /\ nd_result = [raised |-> "pending", docs |-> 0]
    /\ fs_file = [exists |-> FALSE, lines |-> <<>>]
    /\ fs_expected = [exists |-> FALSE, lines |-> <<>>]
    /\ fs_cache = <<>>
    /\ fs_result = [op |-> "none", raised |-> "none", value |-> <<>>]
    /\ rg_lines = <<>>
    /\ rg_idx = 0
    /\ rg_ranges = <<>>
    /\ rg_state = "returned"
    /\ rm_doc_files = <<>>
    /\ rm_found = <<>>
    /\ rm_removed = {}
    /\ rm_state = "done"
    /\ an_entries = <<>>
    /\ an_groups = <<>>
    /\ an_annotations = <<>>
    /\ an_state = "built"

\* exporter.heading(text, level): the one line it returns
HeadingLine ==
    /\ hd_level >= 1
    /\ hd_line = <<>>
    /\ hd_line' = <<heading(hd_text, hd_level)[1]>>
    /\ UNCHANGED <<hd_text, hd_level, hd_result>>
    /\ UNCHANGED <<docVars, linkVars, parseVars, tableVars, treeVars, batchVars, crawlVars, cleanVars, inoutVars, nameVars, repoVars, fileVars, rangeVars, removeVars, annotVars>>

\* the line is written to the file and read back: it ends with a line end
ReadBack ==
    /\ hd_line # <<>>
    /\ hd_result = "none"
    /\ ~endswith(hd_line[1], <<NL>>)
    /\ hd_line' = <<readlines(hd_line)[1]>>
    /\ UNCHANGED <<hd_text, hd_level, hd_result>>
    /\ UNCHANGED <<docVars, linkVars, parseVars, tableVars, treeVars, batchVars, crawlVars, cleanVars, inoutVars, nameVars, repoVars, fileVars, rangeVars, removeVars, annotVars>>

\* exporter.is_heading(line)
IsHeading ==
    /\ hd_line # <<>>
    /\ hd_result = "none"
    /\ hd_result' = IF is_heading(hd_line[1]) THEN "True" ELSE "False"
    /\ UNCHANGED <<hd_text, hd_level, hd_line>>
    /\ UNCHANGED <<docVars, linkVars, parseVars, tableVars, treeVars, batchVars, crawlVars, cleanVars, inoutVars, nameVars, repoVars, fileVars, rangeVars, removeVars, annotVars>>

NextHeading == HeadingLine \/ ReadBack \/ IsHeading

SpecHeading == InitHeading /\ [][NextHeading]_vars

\* number of marker characters a line begins with
RECURSIVE LeadingMarkers(_)
LeadingMarkers(line) ==
    IF line # <<>> /\ Head(line) = "*" THEN 1 + LeadingMarkers(Tail(line)) ELSE 0

\* the line, without its line end, is a run of markers, a blank and a text:
\* a line heading(text, level) returns for some text and some level >= 1
EmittedByHeading(line) ==
    LET l == IF endswith(line, <<NL>>) THEN SubSeq(line, 1, Len(line) - 1) ELSE line
        n == LeadingMarkers(l)
    IN  n >= 1 /\ Len(l) > n /\ l[n + 1] = " "

\* C17: the line heading(text, level) returns begins with level marker
\* characters and is_heading holds for it, with and without a line end.
HeadingRoundTrip ==
    (hd_level >= 1 /\ hd_line # <<>>) =>
        /\ LeadingMarkers(hd_line[1]) = hd_level
        /\ hd_result # "none" => hd_result = "True"

WitHeadingRoundTrip ==
    /\ hd_level >= 2
    /\ hd_text = <<>>
    /\ hd_line # <<>>
    /\ endswith(hd_line[1], <<NL>>)
    /\ hd_result = "True"

\* C18: is_heading does not hold for a line heading() cannot have returned.
NoHeadingFalsePositives ==
    (hd_line # <<>> /\ hd_result = "True") => EmittedByHeading(hd_line[1])

(***************************************************************************)
(* dynamo.__main__.documentation: the batch over packages, custom nodes    *)
(* and scripts                                                             *)
(***************************************************************************)
\* what get_docs does for a file: it writes the document, or the linker
\* raises while the tree is rendered (AnnotationDocs.linked_node)
FileOutcomes == {"ok", "AttributeError"}

\* the files in the order the batch goes through them: the packages with
\* their custom nodes, then the scripts
BatchFiles == batch.packages \o batch.scripts

InitBatch ==
    /\ model = <<>>
    /\ previous = <<>>
    /\ existing_docs_cache = <<>>
    /\ pc = Done
    /\ docs = <<>>
    /\ existing_content = <<>>
    /\ manual = <<>>
    /\ written = <<>>
    /\ lastWritten = <<>>
    /\ runs = 0
    /\ nodes = <<>>
    /\ annotation = [x |-> 0, y |-> 0, doc_type |-> "HEADING"]
    /\ closest = <<>>
    /\ link_result = "none"
    /\ last_closest = <<>>
    /\ description = <<>>
    /\ parser = <<>>
    /\ tbl_heading = <<>>
    /\ tbl_rows = <<>>
    /\ tbl_lines = <<>>
    /\ tbl_ranges = <<>>
    /\ dependencies = [packages |-> <<>>, externals |-> <<>>]
    /\ tree_docs = <<>>
    /\ hd_text = <<>>
    /\ hd_level = 0
    /\ hd_line = <<>>
    /\ hd_result = "none"
    /\ batch_idx = 0
    /\ batch_written = {}
    /\ roots = <<>>
    /\ task = <<>>
    /\ folders = <<>>
    /\ crawl_state = "returned"
    /\ batch \in [packages : SeqsUpTo(FileOutcomes, MaxFiles),
                   scripts : SeqsUpTo(FileOutcomes, MaxFiles)]
    /\ batch_state = "running"
    /\ reads = 0
    /\ cl_collected = <<>>
    /\ cl_result = [returns |-> "none", lines |-> <<>>]
    /\ io_level = 0
    /\ io_nodes = <<>>
    /\ io_result = [raised |-> "pending", lines |-> <<>>]
    /\ nm_name = <<>>
    /\ nm_level = 0
    /\ nm_headline = <<>>
    /\ nd_annotations = <<>>
    /\ nd_model = 0
    /\ nd_result = [raised |-> "pending", docs |-> 0]
    /\ fs_file = [exists |-> FALSE, lines |-> <<>>]
    /\ fs_expected = [exists |-> FALSE, lines |-> <<>>]
    /\ fs_cache = <<>>
    /\ fs_result = [op |-> "none", raised |-> "none", value |-> <<>>]
    /\ rg_lines = <<>>
    /\ rg_idx = 0
    /\ rg_ranges = <<>>
    /\ rg_state = "returned"
    /\ rm_doc_files = <<>>
    /\ rm_found = <<>>
    /\ rm_removed = {}
    /\ rm_state = "done"
    /\ an_entries = <<>>
    /\ an_groups = <<>>
    /\ an_annotations = <<>>
    /\ an_state = "built"

\* get_docs(doc_file) in a loop of the batch: no loop has a try statement,
\* an exception leaves the loop and documentation()
get_docs(k) ==
    IF BatchFiles[k] = "ok"
    THEN /\ batch_written' = batch_written \cup {k}
         /\ batch_idx' = k
         /\ UNCHANGED batch_state
    ELSE /\ batch_state' = BatchFiles[k]
         /\ UNCHANGED <<batch_written, batch_idx>>

\* one pass of the loops of _documentation_packages and _documentation_custom_nodes
_documentation_packages ==
    /\ batch_state = "running"
    /\ batch_idx < Len(batch.packages)
    /\ get_docs(batch_idx + 1)
    /\ UNCHANGED batch
    /\ UNCHANGED <<docVars, linkVars, parseVars, tableVars, treeVars, headVars, crawlVars, cleanVars, inoutVars, nameVars, repoVars, fileVars, rangeVars, removeVars, annotVars>>

\* one pass of the loop of _documentation_scripts
_documentation_scripts ==
    /\ batch_state = "running"
    /\ batch_idx >= Len(batch.packages)
    /\ batch_idx < Len(BatchFiles)
    /\ get_docs(batch_idx + 1)
    /\ UNCHANGED batch
    /\ UNCHANGED <<docVars, linkVars, parseVars, tableVars, treeVars, headVars, crawlVars, cleanVars, inoutVars, nameVars, repoVars, fileVars, rangeVars, removeVars, annotVars>>

\* _documentation_remove: the last step of documentation()
_documentation_remove ==
    /\ batch_state = "running"
    /\ batch_idx = Len(BatchFiles)
    /\ batch_state' = "done"
    /\ UNCHANGED <<batch, batch_idx, batch_written>>
    /\ UNCHANGED <<docVars, linkVars, parseVars, tableVars, treeVars, headVars, crawlVars, cleanVars, inoutVars, nameVars, repoVars, fileVars, rangeVars, removeVars, annotVars>>

NextBatch == _documentation_packages \/ _documentation_scripts \/ _documentation_remove

SpecBatch == InitBatch /\ [][NextBatch]_vars

\* C19: when documentation() is over, every file of the batch whose own
\* generation does not fail has been written, whatever file failed.
FailureIsolated ==
    batch_state # "running" =>
        \A k \in 1..Len(BatchFiles) : BatchFiles[k] = "ok" => k \in batch_written

(***************************************************************************)
(* dynamo.utils.crawler.async_crawling                                     *)
(***************************************************************************)
\* what _crawle does for a root: it raises, or returns the entries it found
RootOutcomes == [raises : {FALSE}, found : 0..MaxEntries] \cup [raises : {TRUE}, found : {0}]

\* the entries _crawle(root) returns: the i-th entry under the k-th root
_crawle(k) == [i \in 1..roots[k].found |-> <<k, i>>]

\* the loop of crawling from root k on: the entries of the roots in their order
RECURSIVE crawling(_)
crawling(k) == IF k > Len(roots) THEN <<>> ELSE _crawle(k) \o crawling(k + 1)

\* a loop body that keeps the result of the last future only
_on_completed_Assign(k) ==
    IF roots[k].raises THEN [folders |-> folders, crawl_state |-> crawl_state]
    ELSE [folders |-> _crawle(k), crawl_state |-> crawl_state]

\* the body of the loop over as_completed where the exception is not caught
_on_completed_Propagates(k) ==
    IF roots[k].raises THEN [folders |-> folders, crawl_state |-> "Exception"]
    ELSE [folders |-> folders \o _crawle(k), crawl_state |-> crawl_state]

\* the body of the loop over as_completed for the future of root k
_on_completed(k) ==
    IF roots[k].raises THEN [folders |-> folders, crawl_state |-> crawl_state]
    ELSE [folders |-> folders \o _crawle(k), crawl_state |-> crawl_state]

InitCrawl ==
    /\ model = <<>>
    /\ previous = <<>>
    /\ existing_docs_cache = <<>>
    /\ pc = Done
    /\ docs = <<>>
    /\ existing_content = <<>>
    /\ manual = <<>>
    /\ written = <<>>
    /\ lastWritten = <<>>
    /\ runs = 0
    /\ nodes = <<>>
    /\ annotation = [x |-> 0, y |-> 0, doc_type |-> "HEADING"]
    /\ closest = <<>>
    /\ link_result = "none"
    /\ last_closest = <<>>
    /\ description = <<>>
    /\ parser = <<>>
    /\ tbl_heading = <<>>
    /\ tbl_rows = <<>>
    /\ tbl_lines = <<>>
    /\ tbl_ranges = <<>>
    /\ dependencies = [packages |-> <<>>, externals |-> <<>>]
    /\ tree_docs = <<>>
    /\ hd_text = <<>>
    /\ hd_level = 0
    /\ hd_line = <<>>
    /\ hd_result = "none"
    /\ batch = <<>>
    /\ batch_idx = 0
    /\ batch_written = {}
    /\ batch_state = "done"
    /\ folders = <<>>
    /\ roots \in SeqsUpTo(RootOutcomes, MaxRoots)
    /\ task = [k \in 1..Len(roots) |-> "submitted"]
    /\ crawl_state = "submitted"
    /\ reads = 0
    /\ cl_collected = <<>>
    /\ cl_result = [returns |-> "none", lines |-> <<>>]
    /\ io_level = 0
    /\ io_nodes = <<>>
    /\ io_result = [raised |-> "pending", lines |-> <<>>]
    /\ nm_name = <<>>
    /\ nm_level = 0
    /\ nm_headline = <<>>
    /\ nd_annotations = <<>>
    /\ nd_model = 0
    /\ nd_result = [raised |-> "pending", docs |-> 0]
    /\ fs_file = [exists |-> FALSE, lines |-> <<>>]
    /\ fs_expected = [exists |-> FALSE, lines |-> <<>>]
    /\ fs_cache = <<>>
    /\ fs_result = [op |-> "none", raised |-> "none", value |-> <<>>]
    /\ rg_lines = <<>>
    /\ rg_idx = 0
    /\ rg_ranges = <<>>
    /\ rg_state = "returned"
    /\ rm_doc_files = <<>>
    /\ rm_found = <<>>
    /\ rm_removed = {}
    /\ rm_state = "done"
    /\ an_entries = <<>>
    /\ an_groups = <<>>
    /\ an_annotations = <<>>
    /\ an_state = "built"

\* a worker thread of the executor takes the task of a root
TaskStart(k) ==
    /\ task[k] = "submitted"
    /\ task' = [task EXCEPT ![k] = "running"]
    /\ UNCHANGED <<roots, folders, crawl_state>>
    /\ UNCHANGED <<docVars, linkVars, parseVars, tableVars, treeVars, headVars, batchVars, cleanVars, inoutVars, nameVars, repoVars, fileVars, rangeVars, removeVars, annotVars>>

\* _crawle(root) ends in its thread: the future holds the result or the exception
TaskEnd(k) ==
    /\ task[k] = "running"
    /\ task' = [task EXCEPT ![k] = "finished"]
    /\ UNCHANGED <<roots, folders, crawl_state>>
    /\ UNCHANGED <<docVars, linkVars, parseVars, tableVars, treeVars, headVars, batchVars, cleanVars, inoutVars, nameVars, repoVars, fileVars, rangeVars, removeVars, annotVars>>

\* as_completed yields a finished future and the loop body runs for it
Completed(k) ==
    /\ crawl_state = "submitted"
    /\ task[k] = "finished"
    /\ task' = [task EXCEPT ![k] = "collected"]
    /\ folders' = _on_completed(k).folders
    /\ crawl_state' = _on_completed(k).crawl_state
    /\ UNCHANGED roots
    /\ UNCHANGED <<docVars, linkVars, parseVars, tableVars, treeVars, headVars, batchVars, cleanVars, inoutVars, nameVars, repoVars, fileVars, rangeVars, removeVars, annotVars>>

\* every future has been yielded: the executor is shut down and folders returned
Return ==
    /\ crawl_state = "submitted"
    /\ \A k \in 1..Len(roots) : task[k] = "collected"
    /\ crawl_state' = "returned"
    /\ UNCHANGED <<roots, task, folders>>
    /\ UNCHANGED <<docVars, linkVars, parseVars, tableVars, treeVars, headVars, batchVars, cleanVars, inoutVars, nameVars, repoVars, fileVars, rangeVars, removeVars, annotVars>>

NextCrawl ==
    \/ \E k \in 1..Len(roots) : TaskStart(k) \/ TaskEnd(k) \/ Completed(k)
    \/ Return

SpecCrawl == InitCrawl /\ [][NextCrawl]_vars

\* the entries of root k are in the list, one after the other
Collected(k) ==
    \E at \in 0..Len(folders) :
        \A i \in 1..roots[k].found : at + i <= Len(folders) /\ folders[at + i] = <<k, i>>

\* C20: no exception of a task leaves async_crawling, no task is dropped
\* because another one raised, and the list returned holds the entries of
\* every root whose task ended normally, in whatever order the tasks end.
CrawlIsolation ==
    /\ crawl_state \in {"submitted", "returned"}
    /\ \A k \in 1..Len(roots) :
           (task[k] = "collected" /\ ~roots[k].raises) => Collected(k)
    /\ crawl_state = "returned" =>
           /\ \A k \in 1..Len(roots) : task[k] = "collected"
           /\ \A k \in 1..Len(roots) : ~roots[k].raises => Collected(k)
           /\ \A j \in 1..Len(folders) : ~roots[folders[j][1]].raises

WitCrawlIsolation ==
    /\ crawl_state = "returned"
    /\ Len(roots) = 3
    /\ roots[1].found = 1
    /\ roots[2].raises
    /\ roots[3].found = 2
    /\ folders = << <<3, 1>>, <<3, 2>>, <<1, 1>> >>

\* how often the entry is in the list
CountOf(list, entry) == Cardinality({j \in 1..Len(list) : list[j] = entry})

\* C29: when no root raises, the list async_crawling returns holds every
\* entry as often as the list crawling returns for the same roots, whatever
\* the order the tasks ended in.
ParallelEqualsSequential ==
    (crawl_state = "returned" /\ \A k \in 1..Len(roots) : ~roots[k].raises) =>
        /\ Len(folders) = Len(crawling(1))
        /\ \A k \in 1..Len(roots) : \A i \in 1..MaxEntries :
               CountOf(folders, <<k, i>>) = CountOf(crawling(1), <<k, i>>)

WitParallelEqualsSequential ==
    /\ crawl_state = "returned"
    /\ Len(roots) = 3
    /\ \A k \in 1..Len(roots) : ~roots[k].raises
    /\ crawling(1) = << <<1, 1>>, <<2, 1>>, <<2, 2>>, <<3, 1>> >>
    /\ folders = << <<3, 1>>, <<1, 1>>, <<2, 1>>, <<2, 2>> >>

(***************************************************************************)
(* dynamo.docs.models.nodes.ANodeDocsContent._clean_existing_content       *)
(***************************************************************************)
MaxCleanLines == 4     \* lines under the heading of an existing block

\* del lines[0], count times
del_first(lines, count) == SubSeq(lines, count + 1, Len(lines))

\* ANodeDocsContent._clean_existing_content: returns is "False" when
\* table_ranges does not come back
ANodeDocsContent_clean_existing_content(collected) ==
    LET lines == _clean_existing_content(collected)
        found == _table_ranges_loop(0, <<>>, lines)
    IN  IF ~found.returns THEN [returns |-> "False", lines |-> <<>>]
        ELSE IF Len(found.ranges) = 0 THEN [returns |-> "True", lines |-> lines]
        ELSE LET start == found.ranges[1][1]
                 end   == found.ranges[1][2]
             IN  [returns |-> "True", lines |-> del_first(lines, end - start)]

\* lines of an existing block as readlines returns them
CleanPool ==
    { <<"t", NL>>, <<"u", NL>>, <<NL>>,
      <<"|", "a", "|", NL>>, <<" ", "|", "a", "|", NL>> }

InitClean ==
    /\ model = <<>>
    /\ previous = <<>>
    /\ existing_docs_cache = <<>>
    /\ pc = Done
    /\ docs = <<>>
    /\ existing_content = <<>>
    /\ manual = <<>>
    /\ written = <<>>
    /\ lastWritten = <<>>
    /\ runs = 0
    /\ nodes = <<>>
    /\ annotation = [x |-> 0, y |-> 0, doc_type |-> "HEADING"]
    /\ closest = <<>>
    /\ link_result = "none"
    /\ last_closest = <<>>
    /\ description = <<>>
    /\ parser = <<>>
    /\ tbl_heading = <<>>
    /\ tbl_rows = <<>>
    /\ tbl_lines = <<>>
    /\ tbl_ranges = <<>>
    /\ dependencies = [packages |-> <<>>, externals |-> <<>>]
    /\ tree_docs = <<>>
    /\ hd_text = <<>>
    /\ hd_level = 0
    /\ hd_line = <<>>
    /\ hd_result = "none"
    /\ batch = <<>>
    /\ batch_idx = 0
    /\ batch_written = {}
    /\ batch_state = "done"
    /\ roots = <<>>
    /\ task = <<>>
    /\ folders = <<>>
    /\ crawl_state = "returned"
    /\ reads = 0
    /\ \E body \in SeqsUpTo(CleanPool, MaxCleanLines) :
           cl_collected = <<heading(<<"N">>, 1)[1] \o <<NL>>>> \o body
    /\ cl_result = [returns |-> "none", lines |-> <<>>]
    /\ io_level = 0
    /\ io_nodes = <<>>
    /\ io_result = [raised |-> "pending", lines |-> <<>>]
    /\ nm_name = <<>>
    /\ nm_level = 0
    /\ nm_headline = <<>>
    /\ nd_annotations = <<>>
    /\ nd_model = 0
    /\ nd_result = [raised |-> "pending", docs |-> 0]
    /\ fs_file = [exists |-> FALSE, lines |-> <<>>]
    /\ fs_expected = [exists |-> FALSE, lines |-> <<>>]
    /\ fs_cache = <<>>
    /\ fs_result = [op |-> "none", raised |-> "none", value |-> <<>>]
    /\ rg_lines = <<>>
    /\ rg_idx = 0
    /\ rg_ranges = <<>>
    /\ rg_state = "returned"
    /\ rm_doc_files = <<>>
    /\ rm_found = <<>>
    /\ rm_removed = {}
    /\ rm_state = "done"
    /\ an_entries = <<>>
    /\ an_groups = <<>>
    /\ an_annotations = <<>>
    /\ an_state = "built"

\* _manual_docs of a node content asks for the cleaned existing block
CleanExisting ==
    /\ cl_result.returns = "none"
    /\ cl_result' = ANodeDocsContent_clean_existing_content(cl_collected)
    /\ UNCHANGED cl_collected
    /\ UNCHANGED <<docVars, linkVars, parseVars, tableVars, treeVars, headVars, batchVars,
                   crawlVars, inoutVars, nameVars, repoVars, fileVars, rangeVars, removeVars, annotVars>>

NextClean == CleanExisting

SpecClean == InitClean /\ [][NextClean]_vars

\* the lines of the block without those of the range [start, end)
WithoutRange(lines, start, end) ==
    SubSeq(lines, 1, start) \o SubSeq(lines, end + 1, Len(lines))

\* C22: when _clean_existing_content of a node content returns, its result is
\* the cleaned existing block without the lines of the first table range, all
\* the other lines being kept in their order.
TableStrippingKeepsManual ==
    cl_result.returns = "True" =>
        LET lines  == _clean_existing_content(cl_collected)
            ranges == _table_ranges_loop(0, <<>>, lines).ranges
        IN  cl_result.lines =
                IF Len(ranges) = 0 THEN lines
                ELSE WithoutRange(lines, ranges[1][1], ranges[1][2])

(***************************************************************************)
(* dynamo.docs.script: the Input and Output sections of a script           *)
(***************************************************************************)
MaxInOut == 3          \* input nodes of a script

\* INPUT.title
Input_title == <<"E", "i", "n", "g", "a", "n", "g">>

\* AInOutputSectionDocs.has_content
AInOutputSectionDocs_has_content(in_nodes) == Len(in_nodes) > 0

\* AInOutputSectionDocs._docs(level=level, node=node): level is bound to the
\* parameter, so kwargs holds the node only and child.content(**kwargs), as
\* general_node_docs(...).content(**kwargs), is called without a level
AInOutputSectionDocs_docs(node, level) == "TypeError"

\* the branch of _child_content for a node with a code attribute: the
\* exporter has no attribute heading_link
AInOutputSectionDocs_code_link(node, level) == "AttributeError"

\* AInOutputSectionDocs._child_content: the first node ends the loop
AInOutputSectionDocs_child_content(in_nodes, level) ==
    IF Len(in_nodes) = 0 THEN [raised |-> "none", lines |-> <<>>]
    ELSE IF in_nodes[1].is_code
    THEN [raised |-> AInOutputSectionDocs_code_link(in_nodes[1], level), lines |-> <<>>]
    ELSE [raised |-> AInOutputSectionDocs_docs(in_nodes[1], level), lines |-> <<>>]

\* ADocContent.content of an InputSectionDocs: the children are the node
\* contents of all_node_docs, whose has_content() is True
InputSectionDocs_content(in_nodes, level) ==
    LET child == AInOutputSectionDocs_child_content(in_nodes, level + 1)
    IN  IF child.raised # "none" THEN child
        ELSE [raised |-> "none",
              lines  |-> ADocContent_content(
                             AInOutputSectionDocs_has_content(in_nodes),
                             _content(strip_empty(heading(Input_title, level)), empty_line),
                             TRUE, child.lines)]

InOutNodes == [name : {<<"a">>, <<"b">>}, is_code : BOOLEAN]

InitInOut ==
    /\ model = <<>>
    /\ previous = <<>>
    /\ existing_docs_cache = <<>>
    /\ pc = Done
    /\ docs = <<>>
    /\ existing_content = <<>>
    /\ manual = <<>>
    /\ written = <<>>
    /\ lastWritten = <<>>
    /\ runs = 0
    /\ nodes = <<>>
    /\ annotation = [x |-> 0, y |-> 0, doc_type |-> "HEADING"]
    /\ closest = <<>>
    /\ link_result = "none"
    /\ last_closest = <<>>
    /\ description = <<>>
    /\ parser = <<>>
    /\ tbl_heading = <<>>
    /\ tbl_rows = <<>>
    /\ tbl_lines = <<>>
    /\ tbl_ranges = <<>>
    /\ dependencies = [packages |-> <<>>, externals |-> <<>>]
    /\ tree_docs = <<>>
    /\ hd_text = <<>>
    /\ hd_level = 0
    /\ hd_line = <<>>
    /\ hd_result = "none"
    /\ batch = <<>>
    /\ batch_idx = 0
    /\ batch_written = {}
    /\ batch_state = "done"
    /\ roots = <<>>
    /\ task = <<>>
    /\ folders = <<>>
    /\ crawl_state = "returned"
    /\ reads = 0
    /\ cl_collected = <<>>
    /\ cl_result = [returns |-> "none", lines |-> <<>>]
    /\ io_level \in 1..(MaxLevel - 1)
    /\ io_nodes \in SeqsUpTo(InOutNodes, MaxInOut)
    /\ io_result = [raised |-> "pending", lines |-> <<>>]
    /\ nm_name = <<>>
    /\ nm_level = 0
    /\ nm_headline = <<>>
    /\ nd_annotations = <<>>
    /\ nd_model = 0
    /\ nd_result = [raised |-> "pending", docs |-> 0]
    /\ fs_file = [exists |-> FALSE, lines |-> <<>>]
    /\ fs_expected = [exists |-> FALSE, lines |-> <<>>]
    /\ fs_cache = <<>>
    /\ fs_result = [op |-> "none", raised |-> "none", value |-> <<>>]
    /\ rg_lines = <<>>
    /\ rg_idx = 0
    /\ rg_ranges = <<>>
    /\ rg_state = "returned"
    /\ rm_doc_files = <<>>
    /\ rm_found = <<>>
    /\ rm_removed = {}
    /\ rm_state = "done"
    /\ an_entries = <<>>
    /\ an_groups = <<>>
    /\ an_annotations = <<>>
    /\ an_state = "built"

\* content(level) of the Input section of a script
InputSectionDocs ==
    /\ io_result.raised = "pending"
    /\ io_result' = InputSectionDocs_content(io_nodes, io_level)
    /\ UNCHANGED <<io_level, io_nodes>>
    /\ UNCHANGED <<docVars, linkVars, parseVars, tableVars, treeVars, headVars, batchVars,
                   crawlVars, cleanVars, nameVars, repoVars, fileVars, rangeVars, removeVars, annotVars>>

NextInOut == InputSectionDocs

SpecInOut == InitInOut /\ [][NextInOut]_vars

\* indexes of the lines that begin with exactly count heading markers
MarkedLines(lines, count) ==
    {k \in 1..Len(lines) : LeadingMarkers(lines[k]) = count}

\* C23: content(level) of a section that lists nodes comes back with a blank
\* line, the heading of the section with level markers, and after it one
\* heading with level + 1 markers for every node, and no other heading.
RenderNesting ==
    (io_result.raised # "pending" /\ Len(io_nodes) > 0) =>
        /\ io_result.raised = "none"
        /\ Len(io_result.lines) >= 2
        /\ strip(io_result.lines[1]) = <<>>
        /\ io_result.lines[2] = heading(Input_title, io_level)[1]
        /\ MarkedLines(io_result.lines, io_level) = {2}
        /\ Cardinality(MarkedLines(io_result.lines, io_level + 1)) = Len(io_nodes)
        /\ \A k \in 1..Len(io_result.lines) :
               LeadingMarkers(io_result.lines[k]) \in {0, io_level, io_level + 1}

(***************************************************************************)
(* The headline of a node content, a category and a dependency             *)
(***************************************************************************)
MaxNameLen == 3        \* characters of a name

\* ANodeDocsContent._headline, and with the category for the name
\* PackageCustomNodeDocs._headline: the name goes to heading() as it is
ANodeDocsContent_headline(name, level) == heading(name, level)

\* the names the source file can hold: the builders copy the JSON value
NamePool == SeqsUpTo({"a", "b", " "}, MaxNameLen)

InitName ==
    /\ model = <<>>
    /\ previous = <<>>
    /\ existing_docs_cache = <<>>
    /\ pc = Done
    /\ docs = <<>>
    /\ existing_content = <<>>
    /\ manual = <<>>
    /\ written = <<>>
    /\ lastWritten = <<>>
    /\ runs = 0
    /\ nodes = <<>>
    /\ annotation = [x |-> 0, y |-> 0, doc_type |-> "HEADING"]
    /\ closest = <<>>
    /\ link_result = "none"
    /\ last_closest = <<>>
    /\ description = <<>>
    /\ parser = <<>>
    /\ tbl_heading = <<>>
    /\ tbl_rows = <<>>
    /\ tbl_lines = <<>>
    /\ tbl_ranges = <<>>
    /\ dependencies = [packages |-> <<>>, externals |-> <<>>]
    /\ tree_docs = <<>>
    /\ hd_text = <<>>
    /\ hd_level = 0
    /\ hd_line = <<>>
    /\ hd_result = "none"
    /\ batch = <<>>
    /\ batch_idx = 0
    /\ batch_written = {}
    /\ batch_state = "done"
    /\ roots = <<>>
    /\ task = <<>>
    /\ folders = <<>>
    /\ crawl_state = "returned"
    /\ reads = 0
    /\ cl_collected = <<>>
    /\ cl_result = [returns |-> "none", lines |-> <<>>]
    /\ io_level = 0
    /\ io_nodes = <<>>
    /\ io_result = [raised |-> "pending", lines |-> <<>>]
    /\ nm_name \in NamePool
    /\ nm_level \in 1..MaxLevel
    /\ nm_headline = <<>>
    /\ nd_annotations = <<>>
    /\ nd_model = 0
    /\ nd_result = [raised |-> "pending", docs |-> 0]
    /\ fs_file = [exists |-> FALSE, lines |-> <<>>]
    /\ fs_expected = [exists |-> FALSE, lines |-> <<>>]
    /\ fs_cache = <<>>
    /\ fs_result = [op |-> "none", raised |-> "none", value |-> <<>>]
    /\ rg_lines = <<>>
    /\ rg_idx = 0
    /\ rg_ranges = <<>>
    /\ rg_state = "returned"
    /\ rm_doc_files = <<>>
    /\ rm_found = <<>>
    /\ rm_removed = {}
    /\ rm_state = "done"
    /\ an_entries = <<>>
    /\ an_groups = <<>>
    /\ an_annotations = <<>>
    /\ an_state = "built"

\* _headline(level, node=node) of a node content
NodeHeadline ==
    /\ nm_headline = <<>>
    /\ nm_headline' = <<ANodeDocsContent_headline(nm_name, nm_level)>>
    /\ UNCHANGED <<nm_name, nm_level>>
    /\ UNCHANGED <<docVars, linkVars, parseVars, tableVars, treeVars, headVars, batchVars,
                   crawlVars, cleanVars, inoutVars, repoVars, fileVars, rangeVars, removeVars, annotVars>>

NextName == NodeHeadline

SpecName == InitName /\ [][NextName]_vars

\* the text of a heading line: what follows the markers and the blank
HeadingText(line) ==
    LET n == LeadingMarkers(line)
    IN  SubSeq(line, n + 2, Len(line))

\* C24: the headline of a name is one line whose text is not blank, is the
\* trimmed name when the name is not blank, and is the same line for every
\* name that differs from it only in surrounding whitespace.
HeadingCanonical ==
    nm_headline # <<>> =>
        LET lines == nm_headline[1]
        IN  /\ Len(lines) = 1
            /\ LeadingMarkers(lines[1]) = nm_level
            /\ strip(HeadingText(lines[1])) # <<>>
            /\ strip(nm_name) # <<>> => HeadingText(lines[1]) = strip(nm_name)
            /\ \A other \in NamePool :
                   strip(other) = strip(nm_name) =>
                       ANodeDocsContent_headline(other, nm_level) = lines

(***************************************************************************)
(* dynamo.docs.manual.repository.DocsNodeRepository.node_docs              *)
(***************************************************************************)
MaxAnnotations == 2    \* annotations with a section in a file
MaxRepoNodes   == 2    \* graph nodes of the file node_docs is asked for

\* nodes and annotations on one line of the canvas
RepoPoints == [x : Coords, y : {0}]

\* the loop of node_docs from annotation k on: linked_node() is called for
\* every annotation the loop comes to
RECURSIVE node_docs(_, _, _, _)
node_docs(k, annotations, graph, model_id) ==
    IF k > Len(annotations) THEN [raised |-> "none", docs |-> 0]
    ELSE IF annotations[k].doc_type = "HEADING"
    THEN [raised |-> "ValueError", docs |-> 0]
    ELSE LET found == _closest_loop(1, <<>>, <<>>, graph, annotations[k])
         IN  IF _closest_outcome(found) # "node"
             THEN [raised |-> _closest_outcome(found), docs |-> 0]
             ELSE IF model_id # found[1]
             THEN node_docs(k + 1, annotations, graph, model_id)
             ELSE [raised |-> "none", docs |-> k]

InitRepo ==
    /\ model = <<>>
    /\ previous = <<>>
    /\ existing_docs_cache = <<>>
    /\ pc = Done
    /\ docs = <<>>
    /\ existing_content = <<>>
    /\ manual = <<>>
    /\ written = <<>>
    /\ lastWritten = <<>>
    /\ runs = 0
    /\ annotation = [x |-> 0, y |-> 0, doc_type |-> "HEADING"]
    /\ closest = <<>>
    /\ link_result = "none"
    /\ last_closest = <<>>
    /\ description = <<>>
    /\ parser = <<>>
    /\ tbl_heading = <<>>
    /\ tbl_rows = <<>>
    /\ tbl_lines = <<>>
    /\ tbl_ranges = <<>>
    /\ dependencies = [packages |-> <<>>, externals |-> <<>>]
    /\ tree_docs = <<>>
    /\ hd_text = <<>>
    /\ hd_level = 0
    /\ hd_line = <<>>
    /\ hd_result = "none"
    /\ batch = <<>>
    /\ batch_idx = 0
    /\ batch_written = {}
    /\ batch_state = "done"
    /\ roots = <<>>
    /\ task = <<>>
    /\ folders = <<>>
    /\ crawl_state = "returned"
    /\ reads = 0
    /\ cl_collected = <<>>
    /\ cl_result = [returns |-> "none", lines |-> <<>>]
    /\ io_level = 0
    /\ io_nodes = <<>>
    /\ io_result = [raised |-> "pending", lines |-> <<>>]
    /\ nm_name = <<>>
    /\ nm_level = 0
    /\ nm_headline = <<>>
    /\ nodes \in SeqsUpTo(RepoPoints, MaxRepoNodes)
    /\ nd_annotations \in SeqsUpTo([x : Coords, y : {0}, doc_type : DocType],
                                   MaxAnnotations)
    /\ nd_model \in 0..Len(nodes)
    /\ nd_result = [raised |-> "pending", docs |-> 0]
    /\ fs_file = [exists |-> FALSE, lines |-> <<>>]
    /\ fs_expected = [exists |-> FALSE, lines |-> <<>>]
    /\ fs_cache = <<>>
    /\ fs_result = [op |-> "none", raised |-> "none", value |-> <<>>]
    /\ rg_lines = <<>>
    /\ rg_idx = 0
    /\ rg_ranges = <<>>
    /\ rg_state = "returned"
    /\ rm_doc_files = <<>>
    /\ rm_found = <<>>
    /\ rm_removed = {}
    /\ rm_state = "done"
    /\ an_entries = <<>>
    /\ an_groups = <<>>
    /\ an_annotations = <<>>
    /\ an_state = "built"

\* file_docs.node_docs(node) of a node content
NodeDocs ==
    /\ nd_result.raised = "pending"
    /\ nd_result' = node_docs(1, nd_annotations, nodes, nd_model)
    /\ UNCHANGED <<nd_annotations, nd_model, nodes>>
    /\ UNCHANGED <<annotation, closest, link_result, last_closest>>
    /\ UNCHANGED <<docVars, parseVars, tableVars, treeVars, headVars, batchVars,
                   crawlVars, cleanVars, inoutVars, nameVars, fileVars, rangeVars, removeVars, annotVars>>

NextRepo == NodeDocs

SpecRepo == InitRepo /\ [][NextRepo]_vars

\* the nodes nearest to annotation k
NearestTo(k) ==
    {n \in 1..Len(nodes) :
        \A j \in 1..Len(nodes) :
            get_distance(nodes[n], nd_annotations[k]) <= get_distance(nodes[j], nd_annotations[k])}

\* C25: node_docs comes back without an error for every node, and what it
\* returns is None or a node-scoped annotation linked to that node, never a
\* headline-scoped one.
NodeDocsTotal ==
    nd_result.raised # "pending" =>
        /\ nd_result.raised = "none"
        /\ nd_result.docs # 0 =>
              /\ nd_annotations[nd_result.docs].doc_type = "NODE"
              /\ nd_model \in NearestTo(nd_result.docs)

(***************************************************************************)
(* dynamo.io.file.FileHandler and ADocFile.existing_docs on one file       *)
(***************************************************************************)
MaxFileLines == 3      \* lines of a written document

\* FileHandler.can_read
can_read(file) == file.exists

\* open(path, mode="w", ...): the file is created or truncated
open_w(file) == [exists |-> TRUE, lines |-> <<>>]

\* FileHandler._open: the default mode is "w" and read passes no other
FileHandler_open(file) == open_w(file)

\* TextHandler._read on a stream opened for writing
TextHandler_read(file) == "UnsupportedOperation"

\* TextHandler._write through FileHandler.write
FileHandler_write(context) == [exists |-> TRUE, lines |-> readlines(context)]

FileContents == SeqsUpTo({<<"a">>, <<"b">>}, MaxFileLines)

InitFile ==
    /\ model = <<>>
    /\ previous = <<>>
    /\ existing_docs_cache = <<>>
    /\ pc = Done
    /\ docs = <<>>
    /\ existing_content = <<>>
    /\ manual = <<>>
    /\ written = <<>>
    /\ lastWritten = <<>>
    /\ runs = 0
    /\ nodes = <<>>
    /\ annotation = [x |-> 0, y |-> 0, doc_type |-> "HEADING"]
    /\ closest = <<>>
    /\ link_result = "none"
    /\ last_closest = <<>>
    /\ description = <<>>
    /\ parser = <<>>
    /\ tbl_heading = <<>>
    /\ tbl_rows = <<>>
    /\ tbl_lines = <<>>
    /\ tbl_ranges = <<>>
    /\ dependencies = [packages |-> <<>>, externals |-> <<>>]
    /\ tree_docs = <<>>
    /\ hd_text = <<>>
    /\ hd_level = 0
    /\ hd_line = <<>>
    /\ hd_result = "none"
    /\ batch = <<>>
    /\ batch_idx = 0
    /\ batch_written = {}
    /\ batch_state = "done"
    /\ roots = <<>>
    /\ task = <<>>
    /\ folders = <<>>
    /\ crawl_state = "returned"
    /\ reads = 0
    /\ cl_collected = <<>>
    /\ cl_result = [returns |-> "none", lines |-> <<>>]
    /\ io_level = 0
    /\ io_nodes = <<>>
    /\ io_result = [raised |-> "pending", lines |-> <<>>]
    /\ nm_name = <<>>
    /\ nm_level = 0
    /\ nm_headline = <<>>
    /\ nd_annotations = <<>>
    /\ nd_model = 0
    /\ nd_result = [raised |-> "pending", docs |-> 0]
    /\ \/ fs_file = [exists |-> FALSE, lines |-> <<>>]
       \/ \E context \in FileContents : fs_file = FileHandler_write(context)
    /\ fs_expected = fs_file
    /\ fs_cache = <<>>
    /\ fs_result = [op |-> "none", raised |-> "none", value |-> <<>>]
    /\ rg_lines = <<>>
    /\ rg_idx = 0
    /\ rg_ranges = <<>>
    /\ rg_state = "returned"
    /\ rm_doc_files = <<>>
    /\ rm_found = <<>>
    /\ rm_removed = {}
    /\ rm_state = "done"
    /\ an_entries = <<>>
    /\ an_groups = <<>>
    /\ an_annotations = <<>>
    /\ an_state = "built"

\* handler.can_read(doc_path)
CanRead ==
    /\ fs_result' = [op |-> "can_read", raised |-> "none",
                     value |-> IF can_read(fs_file) THEN <<"True">> ELSE <<"False">>]
    /\ UNCHANGED <<fs_file, fs_expected, fs_cache>>
    /\ UNCHANGED <<docVars, linkVars, parseVars, tableVars, treeVars, headVars, batchVars,
                   crawlVars, cleanVars, inoutVars, nameVars, repoVars, rangeVars, removeVars, annotVars>>

\* handler.read(doc_path)
Read ==
    /\ fs_file' = FileHandler_open(fs_file)
    /\ fs_result' = [op |-> "read", raised |-> TextHandler_read(fs_file), value |-> <<>>]
    /\ UNCHANGED <<fs_expected, fs_cache>>
    /\ UNCHANGED <<docVars, linkVars, parseVars, tableVars, treeVars, headVars, batchVars,
                   crawlVars, cleanVars, inoutVars, nameVars, repoVars, rangeVars, removeVars, annotVars>>

\* handler.write(doc_path, context)
FileWrite ==
    /\ \E context \in FileContents :
          /\ fs_file' = FileHandler_write(context)
          /\ fs_expected' = FileHandler_write(context)
    /\ fs_result' = [op |-> "write", raised |-> "none", value |-> <<>>]
    /\ UNCHANGED fs_cache
    /\ UNCHANGED <<docVars, linkVars, parseVars, tableVars, treeVars, headVars, batchVars,
                   crawlVars, cleanVars, inoutVars, nameVars, repoVars, rangeVars, removeVars, annotVars>>

\* ADocFile.existing_docs(): the list is set to [] before the handler is asked
ExistingDocs ==
    /\ IF fs_cache # <<>>
       THEN /\ fs_result' = [op |-> "existing_docs", raised |-> "none", value |-> fs_cache[1]]
            /\ UNCHANGED <<fs_file, fs_cache>>
       ELSE /\ fs_cache' = << <<>> >>
            /\ IF can_read(fs_file)
               THEN /\ fs_file' = FileHandler_open(fs_file)
                    /\ fs_result' = [op |-> "existing_docs",
                                     raised |-> TextHandler_read(fs_file), value |-> <<>>]
               ELSE /\ fs_result' = [op |-> "existing_docs", raised |-> "none",
                                     value |-> <<>>]
                    /\ UNCHANGED fs_file
    /\ UNCHANGED fs_expected
    /\ UNCHANGED <<docVars, linkVars, parseVars, tableVars, treeVars, headVars, batchVars,
                   crawlVars, cleanVars, inoutVars, nameVars, repoVars, rangeVars, removeVars, annotVars>>

\* the ADocFile of the next run
NewDocFile ==
    /\ fs_cache # <<>>
    /\ fs_cache' = <<>>
    /\ fs_result' = [op |-> "none", raised |-> "none", value |-> <<>>]
    /\ UNCHANGED <<fs_file, fs_expected>>
    /\ UNCHANGED <<docVars, linkVars, parseVars, tableVars, treeVars, headVars, batchVars,
                   crawlVars, cleanVars, inoutVars, nameVars, repoVars, rangeVars, removeVars, annotVars>>

NextFile == CanRead \/ Read \/ FileWrite \/ ExistingDocs \/ NewDocFile

SpecFile == InitFile /\ [][NextFile]_vars

\* C26: whatever is read in between, the file is as the last write left it
\* (as it was at the start when nothing was written), and existing_docs of a
\* destination that does not exist comes back with the empty list.
ReadingDoesNotModify ==
    /\ fs_file = fs_expected
    /\ (fs_result.op = "existing_docs" /\ ~fs_expected.exists) =>
           (fs_result.raised = "none" /\ fs_result.value = <<>>)

(***************************************************************************)
(* dynamo.docs.export.org.OrgExporter.table_ranges, one pass of the while  *)
(* loop per step                                                           *)
(***************************************************************************)
MaxRangeLines == 3     \* lines table_ranges is called with
MaxRanges     == 4     \* ranges the model tells apart: the list stops growing there

RangePool == { <<"t">>, <<"|", "a", "|">>, <<" ", "|", "a", "|">> }

InitRanges ==
    /\ model = <<>>
    /\ previous = <<>>
    /\ existing_docs_cache = <<>>
    /\ pc = Done
    /\ docs = <<>>
    /\ existing_content = <<>>
    /\ manual = <<>>
    /\ written = <<>>
    /\ lastWritten = <<>>
    /\ runs = 0
    /\ nodes = <<>>
    /\ annotation = [x |-> 0, y |-> 0, doc_type |-> "HEADING"]
    /\ closest = <<>>
    /\ link_result = "none"
    /\ last_closest = <<>>
    /\ description = <<>>
    /\ parser = <<>>
    /\ tbl_heading = <<>>
    /\ tbl_rows = <<>>
    /\ tbl_lines = <<>>
    /\ tbl_ranges = <<>>
    /\ dependencies = [packages |-> <<>>, externals |-> <<>>]
    /\ tree_docs = <<>>
    /\ hd_text = <<>>
    /\ hd_level = 0
    /\ hd_line = <<>>
    /\ hd_result = "none"
    /\ batch = <<>>
    /\ batch_idx = 0
    /\ batch_written = {}
    /\ batch_state = "done"
    /\ roots = <<>>
    /\ task = <<>>
    /\ folders = <<>>
    /\ crawl_state = "returned"
    /\ reads = 0
    /\ cl_collected = <<>>
    /\ cl_result = [returns |-> "none", lines |-> <<>>]
    /\ io_level = 0
    /\ io_nodes = <<>>
    /\ io_result = [raised |-> "pending", lines |-> <<>>]
    /\ nm_name = <<>>
    /\ nm_level = 0
    /\ nm_headline = <<>>
    /\ nd_annotations = <<>>
    /\ nd_model = 0
    /\ nd_result = [raised |-> "pending", docs |-> 0]
    /\ fs_file = [exists |-> FALSE, lines |-> <<>>]
    /\ fs_expected = [exists |-> FALSE, lines |-> <<>>]
    /\ fs_cache = <<>>
    /\ fs_result = [op |-> "none", raised |-> "none", value |-> <<>>]
    /\ rg_lines \in SeqsUpTo(RangePool, MaxRangeLines)
    /\ rg_idx = 0
    /\ rg_ranges = <<>>
    /\ rg_state = "looping"
    /\ rm_doc_files = <<>>
    /\ rm_found = <<>>
    /\ rm_removed = {}
    /\ rm_state = "done"
    /\ an_entries = <<>>
    /\ an_groups = <<>>
    /\ an_annotations = <<>>
    /\ an_state = "built"

\* the line at idx does not start a table: idx += 1; continue
RangesSkip ==
    /\ rg_state = "looping"
    /\ rg_idx < Len(rg_lines)
    /\ ~startswith(lstrip(rg_lines[rg_idx + 1]), <<separator>>)
    /\ rg_idx' = rg_idx + 1
    /\ UNCHANGED <<rg_lines, rg_ranges, rg_state>>
    /\ UNCHANGED <<docVars, linkVars, parseVars, tableVars, treeVars, headVars, batchVars,
                   crawlVars, cleanVars, inoutVars, nameVars, repoVars, fileVars, removeVars, annotVars>>

\* the line at idx starts a table: the range is appended, idx = end_idx
RangesTable ==
    /\ rg_state = "looping"
    /\ rg_idx < Len(rg_lines)
    /\ startswith(lstrip(rg_lines[rg_idx + 1]), <<separator>>)
    /\ LET end_idx == _table_end(rg_idx, rg_lines)
       IN  /\ rg_ranges' = IF Len(rg_ranges) < MaxRanges
                           THEN Append(rg_ranges, <<rg_idx, end_idx>>)
                           ELSE rg_ranges
           /\ rg_idx' = end_idx
    /\ UNCHANGED <<rg_lines, rg_state>>
    /\ UNCHANGED <<docVars, linkVars, parseVars, tableVars, treeVars, headVars, batchVars,
                   crawlVars, cleanVars, inoutVars, nameVars, repoVars, fileVars, removeVars, annotVars>>

\* the while condition fails: return ranges
RangesReturn ==
    /\ rg_state = "looping"
    /\ rg_idx >= Len(rg_lines)
    /\ rg_state' = "returned"
    /\ UNCHANGED <<rg_lines, rg_idx, rg_ranges>>
    /\ UNCHANGED <<docVars, linkVars, parseVars, tableVars, treeVars, headVars, batchVars,
                   crawlVars, cleanVars, inoutVars, nameVars, repoVars, fileVars, removeVars, annotVars>>

NextRanges == RangesSkip \/ RangesTable \/ RangesReturn

SpecRanges == InitRanges /\ [][NextRanges]_vars

\* the interpreter keeps running the loop
SpecRangesFair == InitRanges /\ [][NextRanges]_vars /\ WF_vars(NextRanges)

\* C27: table_ranges returns for every list of lines, and at every moment
\* each range it has collected has start < end and begins where the range
\* before it ends or later.
TableRangesTerminates ==
    /\ <>(rg_state = "returned")
    /\ [](\A k \in 1..Len(rg_ranges) :
             /\ rg_ranges[k][1] < rg_ranges[k][2]
             /\ k > 1 => rg_ranges[k - 1][2] <= rg_ranges[k][1])

(***************************************************************************)
(* dynamo.__main__: _documentation_get_old and _documentation_remove       *)
(***************************************************************************)
MaxDocPaths == 3       \* doc paths under the doc roots
MaxProduced == 2       \* doc files a run produces

\* list.remove(value): the first occurrence goes
list_remove_first(list, value) ==
    LET k == Min({j \in 1..Len(list) : list[j] = value})
    IN  SubSeq(list, 1, k - 1) \o SubSeq(list, k + 1, Len(list))

\* a variant that takes nothing out of the crawled list
_documentation_get_old_KeepAll(all_doc_files, doc_files) == all_doc_files

\* _documentation_get_old: the crawled list without the doc paths of this run
RECURSIVE _documentation_get_old(_, _)
_documentation_get_old(all_doc_files, doc_files) ==
    IF doc_files = <<>> THEN all_doc_files
    ELSE LET doc_path == Head(doc_files)
         IN  IF \A j \in 1..Len(all_doc_files) : all_doc_files[j] # doc_path
             THEN _documentation_get_old(all_doc_files, Tail(doc_files))
             ELSE _documentation_get_old(list_remove_first(all_doc_files, doc_path),
                                         Tail(doc_files))

DocPaths == 1..MaxDocPaths

\* what the crawl of the two doc roots returns: the roots are two different
\* folders of one tree, so every file is found once, in any order
CrawledLists ==
    {l \in SeqsUpTo(DocPaths, MaxDocPaths) : \A i, j \in 1..Len(l) : i # j => l[i] # l[j]}

InitRemove ==
    /\ model = <<>>
    /\ previous = <<>>
    /\ existing_docs_cache = <<>>
    /\ pc = Done
    /\ docs = <<>>
    /\ existing_content = <<>>
    /\ manual = <<>>
    /\ written = <<>>
    /\ lastWritten = <<>>
    /\ runs = 0
    /\ nodes = <<>>
    /\ annotation = [x |-> 0, y |-> 0, doc_type |-> "HEADING"]
    /\ closest = <<>>
    /\ link_result = "none"
    /\ last_closest = <<>>
    /\ description = <<>>
    /\ parser = <<>>
    /\ tbl_heading = <<>>
    /\ tbl_rows = <<>>
    /\ tbl_lines = <<>>
    /\ tbl_ranges = <<>>
    /\ dependencies = [packages |-> <<>>, externals |-> <<>>]
    /\ tree_docs = <<>>
    /\ hd_text = <<>>
    /\ hd_level = 0
    /\ hd_line = <<>>
    /\ hd_result = "none"
    /\ batch = <<>>
    /\ batch_idx = 0
    /\ batch_written = {}
    /\ batch_state = "done"
    /\ roots = <<>>
    /\ task = <<>>
    /\ folders = <<>>
    /\ crawl_state = "returned"
    /\ reads = 0
    /\ cl_collected = <<>>
    /\ cl_result = [returns |-> "none", lines |-> <<>>]
    /\ io_level = 0
    /\ io_nodes = <<>>
    /\ io_result = [raised |-> "pending", lines |-> <<>>]
    /\ nm_name = <<>>
    /\ nm_level = 0
    /\ nm_headline = <<>>
    /\ nd_annotations = <<>>
    /\ nd_model = 0
    /\ nd_result = [raised |-> "pending", docs |-> 0]
    /\ fs_file = [exists |-> FALSE, lines |-> <<>>]
    /\ fs_expected = [exists |-> FALSE, lines |-> <<>>]
    /\ fs_cache = <<>>
    /\ fs_result = [op |-> "none", raised |-> "none", value |-> <<>>]
    /\ rg_lines = <<>>
    /\ rg_idx = 0
    /\ rg_ranges = <<>>
    /\ rg_state = "returned"
    /\ rm_doc_files \in SeqsUpTo(DocPaths, MaxProduced)
    /\ rm_found \in CrawledLists
    /\ rm_removed = {}
    /\ rm_state = "written"
    /\ an_entries = <<>>
    /\ an_groups = <<>>
    /\ an_annotations = <<>>
    /\ an_state = "built"

\* _documentation_remove(manager, gateway, files): os.remove for every old
\* doc path (the html export it clears afterwards lies outside the doc roots)
RemoveOld ==
    /\ rm_state = "written"
    /\ LET old == _documentation_get_old(rm_found, rm_doc_files)
       IN  rm_removed' = {old[j] : j \in 1..Len(old)}
    /\ rm_state' = "done"
    /\ UNCHANGED <<rm_doc_files, rm_found>>
    /\ UNCHANGED <<docVars, linkVars, parseVars, tableVars, treeVars, headVars, batchVars,
                   crawlVars, cleanVars, inoutVars, nameVars, repoVars, fileVars,
                   rangeVars, annotVars>>

NextRemove == RemoveOld

SpecRemove == InitRemove /\ [][NextRemove]_vars

Produced == {rm_doc_files[j] : j \in 1..Len(rm_doc_files)}

Found == {rm_found[j] : j \in 1..Len(rm_found)}

\* C28: after the cleanup no doc path this run produced has been removed, and
\* every doc file the crawl found that this run did not produce has been.
CleanupKeepsFresh ==
    rm_state = "done" =>
        /\ rm_removed \cap Produced = {}
        /\ Found \ Produced \subseteq rm_removed

WitCleanupKeepsFresh ==
    /\ rm_state = "done"
    /\ Produced \cap Found # {}
    /\ Found \ Produced # {}
    /\ rm_removed = Found \ Produced

(***************************************************************************)
(* dynamo.source.json: the groups and annotations of a file                *)
(***************************************************************************)
MaxAnnotEntries == 2   \* entries under View/Annotations
MaxGroupNodes   == 2   \* node ids in the 'Nodes' list of an entry

\* the indexes of S in increasing order
RECURSIVE InOrder(_)
InOrder(S) == IF S = {} THEN <<>> ELSE <<Min(S)>> \o InOrder(S \ {Min(S)})

\* JsonFileRepository.groups: is_group
is_group(value) == value.type = "list" /\ Len(value.items) > 0

\* JsonFileRepository.annotations: is_annotation
is_annotation(value) == value.type = "list" /\ Len(value.items) = 0

\* JsonFileRepository.groups(): the entries _by_callbacks keeps, by index
repo_groups(entries) == InOrder({k \in 1..Len(entries) : is_group(entries[k])})

\* a repository that hands every entry to the annotation builder
repo_annotations_All(entries) == InOrder(1..Len(entries))

\* JsonFileRepository.annotations()
repo_annotations(entries) == InOrder({k \in 1..Len(entries) : is_annotation(entries[k])})

\* len(content.get('Nodes', [])): None has no len
len_Nodes(value) ==
    IF value.type = "null" THEN "TypeError" ELSE IF Len(value.items) > 0 THEN "> 0" ELSE "== 0"

\* GroupBuilder.can_build
GroupBuilder_can_build(value) ==
    IF len_Nodes(value) = "TypeError" THEN "TypeError"
    ELSE IF len_Nodes(value) = "> 0" THEN "True" ELSE "False"

\* AnnotationBuilder.can_build
AnnotationBuilder_can_build(value) ==
    IF len_Nodes(value) = "TypeError" THEN "TypeError"
    ELSE IF len_Nodes(value) = "== 0" THEN "True" ELSE "False"

\* the value of 'Nodes' of an entry: the key is missing, null, a string or a
\* list of node ids
NodesValues ==
    [type : {"missing", "null"}, items : {<<>>}]
        \cup [type : {"str"}, items : {<<>>, <<"a">>}]
        \cup [type : {"list"}, items : SeqsUpTo({1, 2}, MaxGroupNodes)]

InitAnnot ==
    /\ model = <<>>
    /\ previous = <<>>
    /\ existing_docs_cache = <<>>
    /\ pc = Done
    /\ docs = <<>>
    /\ existing_content = <<>>
    /\ manual = <<>>
    /\ written = <<>>
    /\ lastWritten = <<>>
    /\ runs = 0
    /\ nodes = <<>>
    /\ annotation = [x |-> 0, y |-> 0, doc_type |-> "HEADING"]
    /\ closest = <<>>
    /\ link_result = "none"
    /\ last_closest = <<>>
    /\ description = <<>>
    /\ parser = <<>>
    /\ tbl_heading = <<>>
    /\ tbl_rows = <<>>
    /\ tbl_lines = <<>>
    /\ tbl_ranges = <<>>
    /\ dependencies = [packages |-> <<>>, externals |-> <<>>]
    /\ tree_docs = <<>>
    /\ hd_text = <<>>
    /\ hd_level = 0
    /\ hd_line = <<>>
    /\ hd_result = "none"
    /\ batch = <<>>
    /\ batch_idx = 0
    /\ batch_written = {}
    /\ batch_state = "done"
    /\ roots = <<>>
    /\ task = <<>>
    /\ folders = <<>>
    /\ crawl_state = "returned"
    /\ reads = 0
    /\ cl_collected = <<>>
    /\ cl_result = [returns |-> "none", lines |-> <<>>]
    /\ io_level = 0
    /\ io_nodes = <<>>
    /\ io_result = [raised |-> "pending", lines |-> <<>>]
    /\ nm_name = <<>>
    /\ nm_level = 0
    /\ nm_headline = <<>>
    /\ nd_annotations = <<>>
    /\ nd_model = 0
    /\ nd_result = [raised |-> "pending", docs |-> 0]
    /\ fs_file = [exists |-> FALSE, lines |-> <<>>]
    /\ fs_expected = [exists |-> FALSE, lines |-> <<>>]
    /\ fs_cache = <<>>
    /\ fs_result = [op |-> "none", raised |-> "none", value |-> <<>>]
    /\ rg_lines = <<>>
    /\ rg_idx = 0
    /\ rg_ranges = <<>>
    /\ rg_state = "returned"
    /\ rm_doc_files = <<>>
    /\ rm_found = <<>>
    /\ rm_removed = {}
    /\ rm_state = "done"
    /\ an_entries \in SeqsUpTo(NodesValues, MaxAnnotEntries)
    /\ an_groups = <<>>
    /\ an_annotations = <<>>
    /\ an_state = "read"

\* ADynamoFileBuilder._build_nodes for 'groups' and for 'annotations'
BuildNodes ==
    /\ an_state = "read"
    /\ LET for_groups == repo_groups(an_entries)
           for_annot  == repo_annotations(an_entries)
           raised     ==
               \/ \E j \in 1..Len(for_groups) :
                      GroupBuilder_can_build(an_entries[for_groups[j]]) = "TypeError"
               \/ \E j \in 1..Len(for_annot) :
                      AnnotationBuilder_can_build(an_entries[for_annot[j]]) = "TypeError"
           built_groups ==
               InOrder({for_groups[j] : j \in
                           {i \in 1..Len(for_groups) :
                               GroupBuilder_can_build(an_entries[for_groups[i]]) = "True"}})
           built_annot ==
               InOrder({for_annot[j] : j \in
                           {i \in 1..Len(for_annot) :
                               AnnotationBuilder_can_build(an_entries[for_annot[i]]) = "True"}})
       IN  IF raised
           THEN /\ an_state' = "TypeError"
                /\ UNCHANGED <<an_groups, an_annotations>>
           ELSE /\ an_state' = "built"
                /\ an_groups' = [j \in 1..Len(built_groups) |->
                                    [entry |-> built_groups[j],
                                     node_ids |-> an_entries[built_groups[j]].items]]
                /\ an_annotations' = [j \in 1..Len(built_annot) |->
                                         [entry |-> built_annot[j]]]
    /\ UNCHANGED an_entries
    /\ UNCHANGED <<docVars, linkVars, parseVars, tableVars, treeVars, headVars, batchVars,
                   crawlVars, cleanVars, inoutVars, nameVars, repoVars, fileVars,
                   rangeVars, removeVars>>

NextAnnot == BuildNodes

SpecAnnot == InitAnnot /\ [][NextAnnot]_vars

GroupEntries == {an_groups[j].entry : j \in 1..Len(an_groups)}

AnnotationEntries == {an_annotations[j].entry : j \in 1..Len(an_annotations)}

\* C30: the build completes; no source entry is both a Group and an
\* Annotation, nor twice one of them; every Group comes from an entry whose
\* 'Nodes' is a list with at least one node id, which it holds, and every
\* Annotation from an entry whose 'Nodes' is the empty list.
GroupsAnnotationsDisjoint ==
    an_state # "read" =>
        /\ an_state = "built"
        /\ GroupEntries \cap AnnotationEntries = {}
        /\ Cardinality(GroupEntries) = Len(an_groups)
        /\ Cardinality(AnnotationEntries) = Len(an_annotations)
        /\ \A j \in 1..Len(an_groups) :
               /\ an_entries[an_groups[j].entry].type = "list"
               /\ Len(an_groups[j].node_ids) >= 1
               /\ an_groups[j].node_ids = an_entries[an_groups[j].entry].items
        /\ \A j \in 1..Len(an_annotations) :
               an_entries[an_annotations[j].entry] = [type |-> "list", items |-> <<>>]

WitGroupsAnnotationsDisjoint ==
    /\ an_state = "built"
    /\ Len(an_entries) = 2
    /\ Len(an_groups) = 1
    /\ Len(an_annotations) = 1
    /\ Len(an_groups[1].node_ids) = 2

=============================================================================
